---- MODULE Spec2Model ----
(***************************************************************************)
(* Session / Player of the Feed.fm Javascript SDK (src/src/speaker.js,     *)
(* modules feed/session, feed/speaker and feed/player).                    *)
(*                                                                         *)
(* The program is single threaded: every handler (a user call, a reply to  *)
(* a request, a timer callback, a sound event) runs to completion, and one *)
(* action of the model is one such handler, with every call it makes.      *)
(* A handler is an operator from a world record w (all the program state)  *)
(* to the world it leaves; `tasks' is the bag of what the event loop still *)
(* owes the program: replies to requests in flight and timers.             *)
(***************************************************************************)
EXTENDS Integers, Sequences, FiniteSets, Bags, TLC

VARIABLES
  config,   \* Session.config: placementId, placement, current, pendingRequest, pendingPlay
  tasks,    \* bag of requests awaiting their reply and of timers awaiting their time
  state,    \* Player.state: paused, suspended, activePlay; destroyed: Player.session is null
  sounds,   \* the Sound created for each play id, the calls of its destroy()
  ids,      \* next play id the server hands out, next ajax object identity
  budget,   \* retunes, skips and failed replies left (bounds of the model)
  hist,     \* history: the play-active/play-completed log, requests sent per play,
            \* the request that delivered each play, the first request of the last tune,
            \* the positions of the elapse events of each play and the reports they made,
            \* not-in-us emitted since the last tune
  step,     \* the handler that ran last, its arguments, what it emitted and sent
  saved,    \* the object suspend() returned, kept by the application
  machine   \* the state-machine Player: _state, _elapseInterval, _sounds, _playingSound,
            \* its Session's currentPlay, nextPlay and canSkip, the intervals alive

vars == <<config, tasks, state, sounds, ids, budget, hist, step, saved, machine>>

----------------------------------------------------------------------------
(* Bounds of the model *)
MaxPlays == 2
MaxTunes == 2
MaxSkips == 1
MaxCount == 6
MaxFailures == 1

(* Program constants *)
NextPlayFirstDelay == 500
NextPlayGiveUp == 60000
InvalidateFirstDelay == 200
InvalidateGiveUp == 3000
StartRetryDelay == 1000
StartRetryLimit == 2
ElapseInterval == 30000

Null == 0
Undefined == -1
\* the ids of the plays: one more than MaxPlays, for the specification that
\* needs a play of before a re-tune next to two plays of after it
PlayIds == 1..(MaxPlays + 1)

Sat(n) == IF n < MaxCount THEN n + 1 ELSE n

NoCurrent == [play |-> Null, started |-> FALSE, canSkip |-> FALSE, retryCount |-> 0]
NoRequest == [ajax |-> Null, retryCount |-> 0, waited |-> 0]
NoActivePlay ==
  [id |-> Null, startReportedToServer |-> FALSE, soundCompleted |-> FALSE,
   soundCompletedWithError |-> FALSE, playStarted |-> FALSE,
   previousPosition |-> 0]
NoSound ==
  [st |-> "none", cmd |-> "idle", last |-> "none", destroys |-> 0, destructs |-> 0,
   startPosition |-> Undefined, position |-> 0, ticking |-> FALSE,
   played |-> FALSE]
\* suspend() not called yet; restored: unsuspend() has handed saved.play, the
\* one play object with a startPosition property, to a Session
NoSaved ==
  [present |-> FALSE, restored |-> FALSE, placementId |-> FALSE, hasPlay |-> FALSE,
   play |-> Null, startPosition |-> Undefined, canSkip |-> FALSE]

Task(type, play, ajax, delay) ==
  [type |-> type, play |-> play, ajax |-> ajax, delay |-> delay]

----------------------------------------------------------------------------
(* The world a handler works on: the variables, plus what the handler has   *)
(* emitted and sent so far and whether it ended in an uncaught exception.   *)
World ==
  [config |-> config, tasks |-> tasks, state |-> state,
   sounds |-> sounds, ids |-> ids, hist |-> hist, saved |-> saved,
   emitted |-> <<>>, sent |-> <<>>, threw |-> FALSE]

(* throw new Error(...): the handler stops here *)
Throw(w) == [w EXCEPT !.threw = TRUE]

(* _.delay(f, delay) / setTimeout *)
Schedule(w, t) == [w EXCEPT !.tasks = @ (+) SetToBag({t})]

(* Session._signedAjax: the request is in flight until its reply is handled *)
_signedAjax(w, t) ==
  [w EXCEPT !.tasks = @ (+) SetToBag({t}),
            !.sent = Append(@, <<t.type, t.play>>),
            !.hist.startsSent =
               IF t.type = "start" THEN [@ EXCEPT ![t.play] = Sat(@)] ELSE @,
            !.hist.invalidatesSent =
               IF t.type = "invalidate" THEN [@ EXCEPT ![t.play] = Sat(@)] ELSE @]

(* a request whose reply nobody waits for (elapse) *)
FireAndForget(w, type, play, data) ==
  [w EXCEPT !.sent = Append(@, <<type, play, data>>)]

----------------------------------------------------------------------------
(* Sound (feed/speaker): commands change what the engine is asked to do;    *)
(* the engine answers with play / pause / finish events.                    *)

\* speaker.create(url, options): new Sound(options) keeps options.startPosition
SpeakerCreate(w, p, startPosition) ==
  [w EXCEPT !.sounds[p] = [NoSound EXCEPT !.st = "live",
                                          !.startPosition = startPosition]]

\* Sound.play: a Sound with a (truthy) startPosition is loaded and played
\* from that position, any other from the beginning
SoundStartsAt(sound) ==
  IF sound.startPosition # Undefined /\ sound.startPosition # 0
  THEN sound.startPosition ELSE 0

\* Sound.play
SoundPlay(w, p) ==
  IF w.sounds[p].st = "live" THEN [w EXCEPT !.sounds[p].cmd = "play"] ELSE w

\* Sound.resume: SoundManager resumes only a paused sound
SoundResume(w, p) ==
  IF w.sounds[p].st = "live" /\ w.sounds[p].cmd = "pause"
  THEN [w EXCEPT !.sounds[p].cmd = "play"] ELSE w

\* Sound.pause: SoundManager pauses only a sound that was asked to play
SoundPause(w, p) ==
  IF w.sounds[p].st = "live" /\ w.sounds[p].cmd = "play"
  THEN [w EXCEPT !.sounds[p].cmd = "pause"] ELSE w

\* the onfinish callback of the SoundManager sound: this.destruct(), the
\* Sound keeping its sm2Sound reference
SoundFinished(w, p) ==
  [w EXCEPT !.sounds[p].destructs = IF @ < 2 THEN @ + 1 ELSE @]

\* Sound.destroy: destructs the SoundManager sound if sm2Sound is still set
\* (the first call), and unbinds every handler
SoundDestroy(w, p) ==
  IF w.sounds[p].st = "none" THEN w
  ELSE [w EXCEPT !.sounds[p].st = "dead",
                 !.sounds[p].destroys = IF @ < 2 THEN @ + 1 ELSE @,
                 !.sounds[p].destructs =
                    IF w.sounds[p].st = "live" /\ @ < 2 THEN @ + 1 ELSE @]

----------------------------------------------------------------------------
(* Player: the handlers of the Session's events *)

\* play.startPosition of the play object with id p
playStartPosition(w, p) ==
  IF w.saved.restored /\ w.saved.play = p THEN w.saved.startPosition ELSE Undefined

(* _onPlayActive creating the Sound without the startPosition option *)
_onPlayActive_noStartPosition(w, p) ==
  LET w1 == SpeakerCreate(w, p, Undefined)
      w2 == [w1 EXCEPT !.state.activePlay =
                [id |-> p, startReportedToServer |-> FALSE,
                 soundCompleted |-> FALSE, soundCompletedWithError |-> FALSE,
                 playStarted |-> FALSE, previousPosition |-> 0]]
  IN IF ~w2.state.paused THEN SoundPlay(w2, p) ELSE w2

_onPlayActive(w, p) ==
  LET \* if (play.startPosition) options.startPosition = play.startPosition
      startPosition == IF playStartPosition(w, p) \notin {Undefined, 0}
                       THEN playStartPosition(w, p) ELSE Undefined
      w1 == SpeakerCreate(w, p, startPosition)
      w2 == [w1 EXCEPT !.state.activePlay =
                [id |-> p, startReportedToServer |-> FALSE,
                 soundCompleted |-> FALSE, soundCompletedWithError |-> FALSE,
                 playStarted |-> FALSE, previousPosition |-> 0]]
  IN IF ~w2.state.paused THEN SoundPlay(w2, p) ELSE w2

_onPlayStarted(w, p) ==
  IF w.state.activePlay.id = Null \/ w.state.activePlay.id # p THEN w
  ELSE LET w1 == [w EXCEPT !.state.activePlay.startReportedToServer = TRUE]
           \* var session = this.session: the closure keeps null after destroy()
           detached == IF w.state.destroyed THEN "Detached" ELSE ""
       IN IF w1.state.activePlay.soundCompleted
          THEN IF w1.state.activePlay.soundCompletedWithError
               THEN Schedule(w1, Task("deferInvalidate" \o detached, p, Null, 1))
               ELSE Schedule(w1, Task("deferCompleted" \o detached, p, Null, 1))
          ELSE w1

(* _onPlayCompleted leaving state.paused as it is *)
_onPlayCompleted_keepPaused(w, p) ==
  IF w.state.activePlay.id = Null \/ w.state.activePlay.id # p THEN w
  ELSE LET w1 == SoundDestroy(w, w.state.activePlay.id)
       IN [w1 EXCEPT !.state.activePlay = NoActivePlay]

_onPlayCompleted(w, p) ==
  IF w.state.activePlay.id = Null \/ w.state.activePlay.id # p THEN w
  ELSE LET w1 == SoundDestroy(w, w.state.activePlay.id)
       IN [w1 EXCEPT !.state.activePlay = NoActivePlay, !.state.paused = FALSE]

_onPlaysExhausted(w) == [w EXCEPT !.state.paused = FALSE]

----------------------------------------------------------------------------
(* Events.trigger on the Session: the event is recorded, then the Player's  *)
(* handler for it runs, synchronously.                                      *)
Emit(w, ev, p) ==
  [w EXCEPT !.emitted = Append(@, <<ev, p>>),
            !.hist.playLog =
               IF ev \in {"play-active", "play-completed"} THEN Append(@, <<ev, p>>) ELSE @,
            !.hist.notified =
               IF ev \in {"plays-exhausted", "not-in-us", "invalid-credentials"}
               THEN TRUE ELSE @,
            !.hist.notInUs = IF ev = "not-in-us" THEN TRUE ELSE @]

trigger(w, ev, p) ==
  LET w1 == Emit(w, ev, p)
  IN CASE ev = "play-active" -> _onPlayActive(w1, p)
       [] ev = "play-started" -> _onPlayStarted(w1, p)
       [] ev = "play-completed" -> _onPlayCompleted(w1, p)
       [] ev = "plays-exhausted" -> _onPlaysExhausted(w1)
       [] OTHER -> w1

----------------------------------------------------------------------------
(* Session *)

isTuned(w) == w.config.current.play # Null \/ w.config.pendingRequest.ajax # Null

hasActivePlayStarted(w) == w.config.current.play # Null /\ w.config.current.started

(* _assignCurrentPlay without the retirement of the play that is current *)
_assignCurrentPlay_noRetire(w, play, waitingIfEmpty) ==
  IF play = Null
  THEN IF waitingIfEmpty THEN w ELSE trigger(w, "plays-exhausted", Null)
  ELSE trigger([w EXCEPT !.config.current =
                   [play |-> play, started |-> FALSE, canSkip |-> FALSE,
                    retryCount |-> 0]],
               "play-active", play)

_assignCurrentPlay(w, play, waitingIfEmpty) ==
  LET w1 == IF w.config.current.play # Null
            THEN [trigger(w, "play-completed", w.config.current.play)
                    EXCEPT !.config.current = NoCurrent]
            ELSE w
  IN IF play = Null
     THEN IF waitingIfEmpty THEN w1 ELSE trigger(w1, "plays-exhausted", Null)
     ELSE trigger([w1 EXCEPT !.config.current =
                      [play |-> play, started |-> FALSE, canSkip |-> FALSE,
                       retryCount |-> 0]],
                  "play-active", play)

(* _requestNextPlay giving up once the time waited in all, the delay of the *)
(* timer that fired included, is past the limit                             *)
_requestNextPlay_cumulative(w, delay) ==
  IF w.config.pendingRequest.ajax # Null
  THEN IF delay = 0 THEN w
       ELSE IF w.config.pendingRequest.waited + delay > NextPlayGiveUp
       THEN LET w1 == [w EXCEPT !.config.pendingRequest = NoRequest]
            IN IF w1.config.current.play = Null
               THEN _assignCurrentPlay(w1, Null, FALSE)
               ELSE w1
       ELSE _signedAjax(
              [w EXCEPT !.config.pendingRequest.retryCount = @ + 1,
                        !.config.pendingRequest.waited = @ + delay],
              Task("play", Null, w.config.pendingRequest.ajax, delay))
  ELSE _signedAjax(
         [w EXCEPT !.config.pendingRequest =
                      [ajax |-> w.ids.ajax, retryCount |-> 0, waited |-> 0],
                   !.ids.ajax = @ + 1],
         Task("play", Null, w.ids.ajax, delay))

(* _requestNextPlay: the client id is known (a stored cid resolves the      *)
(* promise of _getClientId within the first call), so the body runs in the  *)
(* call itself                                                              *)
_requestNextPlay(w, delay) ==
  IF w.config.pendingRequest.ajax # Null
  THEN IF delay = 0 THEN w
       ELSE IF delay > NextPlayGiveUp
       THEN LET w1 == [w EXCEPT !.config.pendingRequest = NoRequest]
            IN IF w1.config.current.play = Null
               THEN _assignCurrentPlay(w1, Null, FALSE)
               ELSE w1
       ELSE _signedAjax(
              [w EXCEPT !.config.pendingRequest.retryCount = @ + 1,
                        !.config.pendingRequest.waited = @ + delay],
              Task("play", Null, w.config.pendingRequest.ajax, delay))
  ELSE _signedAjax(
         [w EXCEPT !.config.pendingRequest =
                      [ajax |-> w.ids.ajax, retryCount |-> 0, waited |-> 0],
                   !.ids.ajax = @ + 1],
         Task("play", Null, w.ids.ajax, delay))

_getDefaultPlacementInformation(w) ==
  IF w.config.placementId /\ w.config.placement THEN w
  ELSE _signedAjax(w, Task("defaultPlacement", Null, Null, 0))

_getPlacementInformation(w) ==
  IF ~w.config.placementId THEN Throw(w)
  ELSE IF w.config.placement THEN _requestNextPlay(w, 0)
  ELSE _signedAjax(w, Task("placement", Null, Null, 0))

tune(w) ==
  LET w1 == [w EXCEPT !.config.pendingRequest = NoRequest,
                      !.config.pendingPlay = Null,
                      !.hist.tuned = TRUE,
                      !.hist.notified = FALSE,
                      !.hist.notInUs = FALSE,
                      !.hist.tuneAjax = w.ids.ajax]
      w2 == _assignCurrentPlay(w1, Null, TRUE)
  IN IF ~w2.config.placementId
     THEN _getDefaultPlacementInformation(w2)
     ELSE _getPlacementInformation(w2)

_retune(w) == IF ~isTuned(w) THEN w ELSE tune(w)

_receiveDefaultPlacementInformation(w, success) ==
  IF success
  THEN _requestNextPlay(
         trigger(trigger([w EXCEPT !.config.placement = TRUE,
                                   !.config.placementId = TRUE],
                         "placement-changed", Null),
                 "placement", Null),
         0)
  ELSE w

_failedDefaultPlacementInformation(w, resp) ==
  IF resp = "401-5" THEN trigger(w, "invalid-credentials", Null)
  ELSE Schedule(w, Task("defaultPlacementTimer", Null, Null, 0))

_receivePlacementInformation(w, success) ==
  IF success
  THEN _requestNextPlay(trigger([w EXCEPT !.config.placement = TRUE], "placement", Null), 0)
  ELSE w

_failedPlacementInformation(w) == Schedule(w, Task("placementTimer", Null, Null, 0))

(* _receiveNextPlay without the comparison of the reply's request with the  *)
(* pending one                                                              *)
_receiveNextPlay_anyRequest(w, ajax, resp) ==
  LET w1 == [w EXCEPT !.config.pendingRequest = NoRequest]
  IN CASE resp = "play" ->
            IF w1.config.current.play # Null
            THEN [w1 EXCEPT !.config.pendingPlay = w.ids.play, !.ids.play = @ + 1,
                            !.hist.deliveredBy[w.ids.play] = ajax]
            ELSE _assignCurrentPlay([w1 EXCEPT !.ids.play = @ + 1,
                                               !.hist.deliveredBy[w.ids.play] = ajax],
                                    w.ids.play, FALSE)
       [] resp = "exhausted" ->
            IF w1.config.current.play # Null
            THEN [w1 EXCEPT !.config.pendingPlay = Null]
            ELSE trigger(w1, "plays-exhausted", Null)
       [] OTHER -> w1

_receiveNextPlay(w, ajax, resp) ==
  IF w.config.pendingRequest.ajax # Null /\ w.config.pendingRequest.ajax = ajax
  THEN LET w1 == [w EXCEPT !.config.pendingRequest = NoRequest]
       IN CASE resp = "play" ->
                 IF w1.config.current.play # Null
                 THEN [w1 EXCEPT !.config.pendingPlay = w.ids.play, !.ids.play = @ + 1,
                                 !.hist.deliveredBy[w.ids.play] = ajax]
                 ELSE _assignCurrentPlay([w1 EXCEPT !.ids.play = @ + 1,
                                                    !.hist.deliveredBy[w.ids.play] = ajax],
                                         w.ids.play, FALSE)
            [] resp = "exhausted" ->
                 IF w1.config.current.play # Null
                 THEN [w1 EXCEPT !.config.pendingPlay = Null]
                 ELSE trigger(w1, "plays-exhausted", Null)
            [] OTHER -> w1
  ELSE w

_failedNextPlay(w, delay, ajax, resp) ==
  IF w.config.pendingRequest.ajax # Null /\ w.config.pendingRequest.ajax = ajax
  THEN IF resp = "403-19" THEN trigger(w, "not-in-us", Null)
       ELSE LET d == IF delay # 0 THEN delay * 2 ELSE NextPlayFirstDelay
            IN Schedule(w, Task("playTimer", Null, Null, d))
  ELSE w

_receivePlayCompleted(w) ==
  IF w.config.pendingRequest.ajax = Null
  THEN _assignCurrentPlay([w EXCEPT !.config.pendingPlay = Null],
                          w.config.pendingPlay, FALSE)
  ELSE _assignCurrentPlay(w, Null, TRUE)

(* reportPlayCompleted asking only for a current play, started or not *)
reportPlayCompleted_anyCurrent(w) ==
  IF w.config.current.play # Null
  THEN _signedAjax(w, Task("complete", w.config.current.play, Null, 0))
  ELSE Throw(w)

reportPlayCompleted(w) ==
  IF w.config.current.play # Null /\ w.config.current.started
  THEN _signedAjax(w, Task("complete", w.config.current.play, Null, 0))
  ELSE Throw(w)

reportPlayElapsed(w, seconds) ==
  IF w.config.current.play = Null THEN Throw(w)
  ELSE FireAndForget(w, "elapse", w.config.current.play, seconds)

(* requestSkip asking the server whatever canSkip says *)
requestSkip_alwaysAsk(w) ==
  IF w.config.current.play = Null THEN Throw(w)
  ELSE IF ~w.config.current.started THEN Throw(w)
  ELSE _signedAjax(w, Task("skip", w.config.current.play, Null, 0))

requestSkip(w) ==
  IF w.config.current.play = Null THEN Throw(w)
  ELSE IF ~w.config.current.started THEN Throw(w)
  ELSE IF ~w.config.current.canSkip THEN trigger(w, "skip-denied", Null)
  ELSE _signedAjax(w, Task("skip", w.config.current.play, Null, 0))

_sendInvalidate(w, play, delay) == _signedAjax(w, Task("invalidate", play, Null, delay))

requestInvalidate(w) ==
  IF w.config.current.play = Null THEN Throw(w)
  ELSE _sendInvalidate(w, w.config.current.play, 0)

(* the retry timer calls _sendInvalidate(play) without the delay *)
_failInvalidate(w, delay, play) ==
  LET d == IF delay # 0 THEN delay * 2 ELSE InvalidateFirstDelay
  IN IF d < InvalidateGiveUp
     THEN Schedule(w, Task("invalidateTimer", play, Null, d))
     ELSE w

(* _receiveInvalidate retiring the play as the end of the plays *)
_receiveInvalidate_exhausted(w, play, success) ==
  IF w.config.current.play = Null \/ w.config.current.play # play THEN w
  ELSE IF ~success THEN w
  ELSE IF w.config.pendingPlay # Null
  THEN _assignCurrentPlay([w EXCEPT !.config.pendingPlay = Null],
                          w.config.pendingPlay, FALSE)
  ELSE _assignCurrentPlay(w, Null, FALSE)

_receiveInvalidate(w, play, success) ==
  IF w.config.current.play = Null \/ w.config.current.play # play THEN w
  ELSE IF ~success THEN w
  ELSE IF w.config.pendingPlay # Null
  THEN _assignCurrentPlay([w EXCEPT !.config.pendingPlay = Null],
                          w.config.pendingPlay, FALSE)
  ELSE LET w1 == _assignCurrentPlay(w, Null, TRUE)
       IN IF w1.config.pendingRequest.ajax = Null
          THEN _requestNextPlay(w1, 0)
          ELSE w1

(* _failSkip retiring the play as a successful skip does *)
_failSkip_asSuccess(w, play) ==
  IF w.config.current.play = Null \/ w.config.current.play # play THEN w
  ELSE _assignCurrentPlay(w, Null, TRUE)

_failSkip(w, play) ==
  IF w.config.current.play = Null \/ w.config.current.play # play THEN w
  ELSE trigger(w, "skip-denied", Null)

(* _receiveSkip announcing plays-exhausted although a request is pending *)
_receiveSkip_neverWaiting(w, play, success) ==
  IF w.config.current.play = Null \/ w.config.current.play # play THEN w
  ELSE IF ~success THEN trigger(w, "skip-denied", Null)
  ELSE IF w.config.pendingPlay # Null
  THEN _assignCurrentPlay([w EXCEPT !.config.pendingPlay = Null],
                          w.config.pendingPlay, FALSE)
  ELSE _assignCurrentPlay(w, Null, FALSE)

_receiveSkip(w, play, success) ==
  IF w.config.current.play = Null \/ w.config.current.play # play THEN w
  ELSE IF ~success THEN trigger(w, "skip-denied", Null)
  ELSE IF w.config.pendingPlay # Null
  THEN _assignCurrentPlay([w EXCEPT !.config.pendingPlay = Null],
                          w.config.pendingPlay, FALSE)
  ELSE IF w.config.pendingRequest.ajax # Null
  THEN _assignCurrentPlay(w, Null, TRUE)
  ELSE _assignCurrentPlay(w, Null, FALSE)

(* _receiveStartPlay without the request for the next play *)
_receiveStartPlay_noPrefetch(w, play, success, can_skip) ==
  IF success
  THEN IF w.config.current.play # Null /\ w.config.current.play = play
       THEN trigger([w EXCEPT !.config.current.canSkip = can_skip,
                              !.config.current.started = TRUE],
                    "play-started", play)
       ELSE w
  ELSE w

_receiveStartPlay(w, play, success, can_skip) ==
  IF success
  THEN IF w.config.current.play # Null /\ w.config.current.play = play
       THEN _requestNextPlay(
              trigger([w EXCEPT !.config.current.canSkip = can_skip,
                                !.config.current.started = TRUE],
                      "play-started", play),
              0)
       ELSE w
  ELSE w

(* _startPlay allowing one more retry before it assumes the start *)
_startPlay_oneMore(w, play) ==
  IF w.config.current.play = Null THEN Throw(w)
  ELSE IF w.config.current.retryCount > StartRetryLimit + 1
  THEN _receiveStartPlay(w, play, TRUE, TRUE)
  ELSE _signedAjax(w, Task("start", play, Null, 0))

(* this.config.current.retryCount is read whatever the current play is, and *)
(* reading it with no current play is a TypeError                           *)
_startPlay(w, play) ==
  IF w.config.current.play = Null THEN Throw(w)
  ELSE IF w.config.current.retryCount > StartRetryLimit
  THEN _receiveStartPlay(w, play, TRUE, TRUE)
  ELSE _signedAjax(w, Task("start", play, Null, 0))

(* _failStartPlay assuming the start on any failed reply *)
_failStartPlay_assumeOnError(w, play, resp) ==
  IF w.config.current.play # Null /\ w.config.current.play = play
  THEN _receiveStartPlay(w, play, TRUE, TRUE)
  ELSE w

_failStartPlay(w, play, resp) ==
  IF w.config.current.play # Null /\ w.config.current.play = play
  THEN IF resp = "403-20" THEN _receiveStartPlay(w, play, TRUE, TRUE)
       ELSE Schedule([w EXCEPT !.config.current.retryCount = @ + 1],
                     Task("startTimer", play, Null, StartRetryDelay))
  ELSE w

reportPlayStarted(w) ==
  IF w.config.current.play = Null THEN Throw(w)
  ELSE _startPlay(w, w.config.current.play)

setStationId(w) == _retune(trigger(w, "station-changed", Null))

\* setCredentials stores the token and the secret, and nothing else
setCredentials(w) == w

\* setPlacementId: config.placement stands for "the placement information
\* held is the one of config.placementId", which a changed id makes false
setPlacementId(w, changed) ==
  _retune(trigger([w EXCEPT !.config.placementId = TRUE,
                            !.config.placement = IF changed THEN FALSE ELSE @],
                  "placement-changed", Null))

setFormats(w) == _retune(w)

----------------------------------------------------------------------------
(* Player: the handlers of the Sound's events, and the public operations *)

(* _onSoundFinish without the comparison of the event's play with the      *)
(* bound one                                                                *)
_onSoundFinish_anyId(w, p, withError) ==
  IF w.state.activePlay.id = Null THEN w
  ELSE LET w1 == [w EXCEPT !.state.activePlay.soundCompleted = TRUE,
                           !.state.activePlay.soundCompletedWithError =
                              IF withError THEN TRUE ELSE @]
       IN IF ~w1.state.activePlay.playStarted THEN requestInvalidate(w1)
          ELSE IF ~w1.state.activePlay.startReportedToServer THEN w1
          ELSE IF withError THEN requestInvalidate(w1)
          ELSE reportPlayCompleted(w1)

(* _onSoundPlay reporting the start at every play event *)
_onSoundPlay_alwaysReport(w, p) ==
  IF w.state.activePlay.id = Null \/ w.state.activePlay.id # p THEN w
  ELSE reportPlayStarted([w EXCEPT !.state.paused = FALSE,
                                   !.state.activePlay.playStarted = TRUE])

_onSoundPlay(w, p) ==
  IF w.state.activePlay.id = Null \/ w.state.activePlay.id # p THEN w
  ELSE LET w1 == [w EXCEPT !.state.paused = FALSE,
                           !.state.activePlay.playStarted = TRUE]
       IN IF w1.state.destroyed THEN Throw(w1)
          ELSE IF ~w1.state.activePlay.startReportedToServer
          THEN reportPlayStarted(w1)
          ELSE Emit(w1, "play-resumed", p)

_onSoundPause(w, p) ==
  IF w.state.activePlay.id = Null \/ w.state.activePlay.id # p THEN w
  ELSE IF w.state.destroyed THEN Throw([w EXCEPT !.state.paused = TRUE])
  ELSE Emit([w EXCEPT !.state.paused = TRUE], "play-paused", p)

(* _onSoundFinish reporting the completion of a play whose sound never played *)
_onSoundFinish_completes(w, p, withError) ==
  IF w.state.activePlay.id = Null \/ w.state.activePlay.id # p THEN w
  ELSE LET w1 == [w EXCEPT !.state.activePlay.soundCompleted = TRUE,
                           !.state.activePlay.soundCompletedWithError =
                              IF withError THEN TRUE ELSE @]
       IN IF w1.state.destroyed THEN Throw(w1)
          ELSE IF ~w1.state.activePlay.playStarted
          THEN reportPlayCompleted_anyCurrent(w1)
          ELSE IF ~w1.state.activePlay.startReportedToServer THEN w1
          ELSE IF withError THEN requestInvalidate(w1)
          ELSE reportPlayCompleted(w1)

_onSoundFinish(w, p, withError) ==
  IF w.state.activePlay.id = Null \/ w.state.activePlay.id # p THEN w
  ELSE LET w1 == [w EXCEPT !.state.activePlay.soundCompleted = TRUE,
                           !.state.activePlay.soundCompletedWithError =
                              IF withError THEN TRUE ELSE @]
       IN IF ~w1.state.activePlay.playStarted
          THEN IF w1.state.destroyed THEN Throw(w1) ELSE requestInvalidate(w1)
          ELSE IF ~w1.state.activePlay.startReportedToServer THEN w1
          ELSE IF w1.state.destroyed THEN Throw(w1)
          ELSE IF withError THEN requestInvalidate(w1)
          ELSE reportPlayCompleted(w1)

(* _onSoundElapse reporting the elapsed time at every event *)
_onSoundElapse_everyTick(w, p, position) ==
  IF w.state.activePlay.id = Null \/ w.state.activePlay.id # p THEN w
  ELSE LET w1 == [w EXCEPT !.state.activePlay.previousPosition = position]
       IN IF w1.state.destroyed THEN Throw(w1)
          ELSE reportPlayElapsed(w1, position \div 1000)

(* position is what sound.position() returns when the event is handled *)
_onSoundElapse(w, p, position) ==
  IF w.state.activePlay.id = Null \/ w.state.activePlay.id # p THEN w
  ELSE LET previousCount == w.state.activePlay.previousPosition \div ElapseInterval
           currentCount == position \div ElapseInterval
           w1 == [w EXCEPT !.state.activePlay.previousPosition = position]
       IN IF currentCount = previousCount THEN w1
          ELSE IF w1.state.destroyed THEN Throw(w1)
          ELSE reportPlayElapsed(w1, position \div 1000)

(* Player.tune, Player.play: the body runs once the speaker is initialized *)
(* with this.session null after destroy() the first line of each throws *)
PlayerTune(w) ==
  IF w.state.destroyed THEN Throw(w)
  ELSE IF ~isTuned(w) THEN tune(w) ELSE w

PlayerPlay(w) ==
  IF w.state.destroyed THEN Throw(w)
  ELSE IF ~isTuned(w) THEN tune([w EXCEPT !.state.paused = FALSE])
  ELSE IF w.config.current.play # Null /\ w.state.activePlay.id # Null /\ w.state.paused
  THEN IF w.state.activePlay.playStarted
       THEN SoundResume(w, w.state.activePlay.id)
       ELSE SoundPlay(w, w.state.activePlay.id)
  ELSE w

PlayerPause(w) ==
  IF w.state.destroyed THEN Throw(w)
  ELSE IF ~hasActivePlayStarted(w) \/ w.state.activePlay.id = Null \/ w.state.paused THEN w
  ELSE SoundPause(w, w.state.activePlay.id)

PlayerSkip(w) ==
  IF w.state.destroyed THEN Throw(w)
  ELSE IF ~hasActivePlayStarted(w) THEN w ELSE requestSkip(w)

(* Player.destroy: this.session = null, the Sound of the binding destroyed; *)
(* the Session and the handlers the Player bound to it stay as they are     *)
PlayerDestroy(w) ==
  LET w1 == [w EXCEPT !.state.destroyed = TRUE]
  IN IF w1.state.activePlay.id # Null
     THEN SoundDestroy(w1, w1.state.activePlay.id)
     ELSE w1

----------------------------------------------------------------------------
(* The state machine *)

(* the states of the state-machine Player *)
PlaybackState ==
  {"UNINITIALIZED", "UNAVAILABLE", "WAITING_FOR_ITEM", "READY_TO_PLAY",
   "PLAYING", "PAUSED", "STALLED", "REQUESTING_SKIP"}

(* the state-machine Player after its constructor; intervals counts the     *)
(* setInterval timers that have not been cleared; last is the handler that  *)
(* ran last, whether it called session.updatePlay, whether it threw and the *)
(* play of the sound it called play() or resume() on; skipFrom is the state *)
(* in which the last skip() was accepted                                    *)
NewPlayer ==
  [state |-> "UNINITIALIZED", elapseInterval |-> FALSE, intervals |-> 0,
   sounds |-> {}, playingSound |-> Null,
   session |-> [currentPlay |-> Null, nextPlay |-> Null, canSkip |-> FALSE],
   destroyed |-> FALSE, skipFrom |-> "", threw |-> FALSE, commanded |-> Null,
   last |-> [op |-> "init", reported |-> FALSE, threw |-> FALSE, commanded |-> Null]]

InitWith(b) ==
  /\ machine = NewPlayer
  /\ config \in [placementId : BOOLEAN, placement : {FALSE}, current : {NoCurrent},
                 pendingRequest : {NoRequest}, pendingPlay : {Null}]
  /\ tasks = EmptyBag
  /\ state = [paused |-> TRUE, suspended |-> FALSE, activePlay |-> NoActivePlay,
              destroyed |-> FALSE]
  /\ sounds = [p \in PlayIds |-> NoSound]
  /\ ids = [play |-> 1, ajax |-> 1]
  /\ budget = b
  /\ hist = [playLog |-> <<>>, startsSent |-> [p \in PlayIds |-> 0],
             invalidatesSent |-> [p \in PlayIds |-> 0],
             deliveredBy |-> [p \in PlayIds |-> Null],
             tuned |-> FALSE, notified |-> FALSE, notInUs |-> FALSE, tuneAjax |-> 0,
             elapseTrace |-> [p \in PlayIds |-> <<>>],
             elapseCalls |-> [p \in PlayIds |-> 0]]
  /\ step = [op |-> "init", play |-> Null, ajax |-> Null, delay |-> 0, resp |-> "",
             emitted |-> <<>>, sent |-> <<>>, threw |-> FALSE]
  /\ saved = NoSaved

Init == InitWith([tunes |-> MaxTunes, skips |-> MaxSkips, failures |-> MaxFailures])

(* the handler `op' ran on task or arguments t with reply resp and left w *)
Commit(op, t, resp, w) ==
  /\ config' = w.config
  /\ tasks' = w.tasks
  /\ state' = w.state
  /\ sounds' = w.sounds
  /\ ids' = w.ids
  /\ hist' = w.hist
  /\ saved' = w.saved
  /\ machine' = machine
  /\ step' = [op |-> op, play |-> t.play, ajax |-> t.ajax, delay |-> t.delay,
              resp |-> resp, emitted |-> w.emitted, sent |-> w.sent, threw |-> w.threw]

NoArgs == Task("", Null, Null, 0)

(* the world once task t has left the event loop's queue *)
Taken(t) == [World EXCEPT !.tasks = @ (-) SetToBag({t})]

Pending(type) == {t \in BagToSet(tasks) : t.type = type}

(* the replies that are failures: the server or the network may produce any *)
(* number of them, the model a bounded number                               *)
Failures == {"unsuccessful", "error", "401-5", "403-19", "403-20"}

Reply(resp) ==
  /\ resp \in Failures => budget.failures # 0
  /\ budget' = IF resp \in Failures /\ budget.failures > 0
               THEN [budget EXCEPT !.failures = @ - 1] ELSE budget

(* user operations *)
UserTune ==
  /\ ~state.destroyed
  /\ budget.tunes > 0 /\ ~isTuned(World)
  /\ budget' = [budget EXCEPT !.tunes = @ - 1]
  /\ Commit("Player.tune", NoArgs, "", PlayerTune(World))

UserPlay ==
  /\ ~state.destroyed
  /\ IF isTuned(World) THEN state.paused /\ state.activePlay.id # Null
                       ELSE budget.tunes > 0
  /\ budget' = IF isTuned(World) THEN budget ELSE [budget EXCEPT !.tunes = @ - 1]
  /\ Commit("Player.play", NoArgs, "", PlayerPlay(World))

UserPause ==
  /\ ~state.destroyed
  /\ hasActivePlayStarted(World) /\ state.activePlay.id # Null /\ ~state.paused
  /\ UNCHANGED budget
  /\ Commit("Player.pause", NoArgs, "", PlayerPause(World))

UserSkip ==
  /\ ~state.destroyed
  /\ budget.skips > 0 /\ hasActivePlayStarted(World)
  /\ budget' = [budget EXCEPT !.skips = @ - 1]
  /\ Commit("Player.skip", NoArgs, "", PlayerSkip(World))

UserSetStationId ==
  /\ budget.tunes > 0 /\ isTuned(World)
  /\ budget' = [budget EXCEPT !.tunes = @ - 1]
  /\ Commit("setStationId", NoArgs, "", setStationId(World))

(* replies and timers of the placement requests *)
DefaultPlacementReply ==
  \E t \in Pending("defaultPlacement"), resp \in {"success", "unsuccessful", "401-5", "error"} :
    /\ Reply(resp)
    /\ IF resp \in {"success", "unsuccessful"}
       THEN Commit("_receiveDefaultPlacementInformation", t, resp,
                   _receiveDefaultPlacementInformation(Taken(t), resp = "success"))
       ELSE Commit("_failedDefaultPlacementInformation", t, resp,
                   _failedDefaultPlacementInformation(Taken(t), resp))

DefaultPlacementTimer ==
  \E t \in Pending("defaultPlacementTimer") :
    /\ UNCHANGED budget
    /\ Commit("_getDefaultPlacementInformation", t, "",
              _getDefaultPlacementInformation(Taken(t)))

PlacementReply ==
  \E t \in Pending("placement"), resp \in {"success", "unsuccessful", "error"} :
    /\ Reply(resp)
    /\ IF resp \in {"success", "unsuccessful"}
       THEN Commit("_receivePlacementInformation", t, resp,
                   _receivePlacementInformation(Taken(t), resp = "success"))
       ELSE Commit("_failedPlacementInformation", t, resp,
                   _failedPlacementInformation(Taken(t)))

PlacementTimer ==
  \E t \in Pending("placementTimer") :
    /\ UNCHANGED budget
    /\ Commit("_getPlacementInformation", t, "", _getPlacementInformation(Taken(t)))

\* the number of plays the server hands out
PlayLimit == IF "plays" \in DOMAIN budget THEN budget.plays ELSE MaxPlays

(* replies and timers of the next-play request *)
NextPlayReply ==
  \E t \in Pending("play"), resp \in {"play", "exhausted", "unsuccessful", "403-19", "error"} :
    /\ Reply(resp)
    /\ resp = "play" => ids.play <= PlayLimit
    /\ IF resp \in {"play", "exhausted", "unsuccessful"}
       THEN Commit("_receiveNextPlay", t, resp, _receiveNextPlay(Taken(t), t.ajax, resp))
       ELSE Commit("_failedNextPlay", t, resp,
                   _failedNextPlay(Taken(t), t.delay, t.ajax, resp))

NextPlayTimer ==
  \E t \in Pending("playTimer") :
    /\ UNCHANGED budget
    /\ Commit("_requestNextPlay", t, "", _requestNextPlay(Taken(t), t.delay))

(* replies and timers of the start, complete, skip and invalidate requests *)
StartReply ==
  \E t \in Pending("start"), resp \in {"can_skip", "no_skip", "unsuccessful", "403-20", "error"} :
    /\ Reply(resp)
    /\ IF resp \in {"can_skip", "no_skip", "unsuccessful"}
       THEN Commit("_receiveStartPlay", t, resp,
                   _receiveStartPlay(Taken(t), t.play, resp # "unsuccessful", resp = "can_skip"))
       ELSE Commit("_failStartPlay", t, resp, _failStartPlay(Taken(t), t.play, resp))

StartTimer ==
  \E t \in Pending("startTimer") :
    /\ UNCHANGED budget
    /\ Commit("_startPlay", t, "", _startPlay(Taken(t), t.play))

CompleteReply ==
  \E t \in Pending("complete") :
    /\ UNCHANGED budget
    /\ Commit("_receivePlayCompleted", t, "", _receivePlayCompleted(Taken(t)))

SkipReply ==
  \E t \in Pending("skip"), resp \in {"success", "unsuccessful", "error"} :
    /\ Reply(resp)
    /\ IF resp \in {"success", "unsuccessful"}
       THEN Commit("_receiveSkip", t, resp, _receiveSkip(Taken(t), t.play, resp = "success"))
       ELSE Commit("_failSkip", t, resp, _failSkip(Taken(t), t.play))

InvalidateReply ==
  \E t \in Pending("invalidate"), resp \in {"success", "unsuccessful", "error"} :
    /\ Reply(resp)
    /\ IF resp \in {"success", "unsuccessful"}
       THEN Commit("_receiveInvalidate", t, resp,
                   _receiveInvalidate(Taken(t), t.play, resp = "success"))
       ELSE Commit("_failInvalidate", t, resp, _failInvalidate(Taken(t), t.delay, t.play))

InvalidateTimer ==
  \E t \in Pending("invalidateTimer") :
    /\ UNCHANGED budget
    /\ Commit("_sendInvalidate", t, "", _sendInvalidate(Taken(t), t.play, 0))

(* the calls _onPlayStarted deferred *)
DeferredCompleted ==
  \E t \in Pending("deferCompleted") \cup Pending("deferCompletedDetached") :
    /\ UNCHANGED budget
    /\ Commit("deferred reportPlayCompleted", t, "",
              IF t.type = "deferCompleted" THEN reportPlayCompleted(Taken(t))
              ELSE Throw(Taken(t)))

DeferredInvalidate ==
  \E t \in Pending("deferInvalidate") \cup Pending("deferInvalidateDetached") :
    /\ UNCHANGED budget
    /\ Commit("deferred requestInvalidate", t, "",
              IF t.type = "deferInvalidate" THEN requestInvalidate(Taken(t))
              ELSE Throw(Taken(t)))

(* the events of a Sound whose handlers are still bound *)
SoundPlayEvent ==
  \E p \in PlayIds :
    /\ sounds[p].st = "live" /\ sounds[p].cmd = "play" /\ sounds[p].last \in {"none", "pause"}
    /\ UNCHANGED budget
    /\ Commit("_onSoundPlay", Task("", p, Null, 0), "",
              _onSoundPlay([World EXCEPT !.sounds[p].last = "play",
                                         !.sounds[p].played = TRUE], p))

SoundPauseEvent ==
  \E p \in PlayIds :
    /\ sounds[p].st = "live" /\ sounds[p].cmd = "pause" /\ sounds[p].last = "play"
    /\ UNCHANGED budget
    /\ Commit("_onSoundPause", Task("", p, Null, 0), "",
              _onSoundPause([World EXCEPT !.sounds[p].last = "pause"], p))

SoundFinishEvent ==
  \E p \in PlayIds, withError \in BOOLEAN :
    /\ sounds[p].st = "live" /\ sounds[p].cmd # "idle" /\ sounds[p].last # "finish"
    /\ ~withError => sounds[p].last = "play"
    /\ UNCHANGED budget
    /\ LET w0 == [World EXCEPT !.sounds[p].last = "finish"]
           w == _onSoundFinish(IF withError THEN w0 ELSE SoundFinished(w0, p),
                               p, withError)
       IN Commit("_onSoundFinish", Task("", p, Null, 0),
                 IF withError THEN "withError" ELSE "",
                 IF withError THEN SoundDestroy(w, p) ELSE w)

Next ==
  \/ UserTune \/ UserPlay \/ UserPause \/ UserSkip \/ UserSetStationId
  \/ DefaultPlacementReply \/ DefaultPlacementTimer
  \/ PlacementReply \/ PlacementTimer
  \/ NextPlayReply \/ NextPlayTimer
  \/ StartReply \/ StartTimer
  \/ CompleteReply \/ SkipReply
  \/ InvalidateReply \/ InvalidateTimer
  \/ DeferredCompleted \/ DeferredInvalidate
  \/ SoundPlayEvent \/ SoundPauseEvent \/ SoundFinishEvent

Spec == Init /\ [][Next]_vars

InitRetry == InitWith([tunes |-> 1, skips |-> 0, failures |-> -1])

NextRetry ==
  \/ UserPlay
  \/ DefaultPlacementReply \/ DefaultPlacementTimer
  \/ PlacementReply \/ PlacementTimer
  \/ NextPlayReply \/ NextPlayTimer
  \/ StartReply \/ StartTimer
  \/ CompleteReply
  \/ InvalidateReply \/ InvalidateTimer
  \/ DeferredCompleted \/ DeferredInvalidate
  \/ SoundPlayEvent \/ SoundFinishEvent

SpecRetry == InitRetry /\ [][NextRetry]_vars

(* every request is answered, every timer fires, every deferred call runs   *)
(* and a sound that was asked to play does play or fail                     *)
SpecRetryFair ==
  /\ SpecRetry
  /\ WF_vars(DefaultPlacementReply) /\ WF_vars(DefaultPlacementTimer)
  /\ WF_vars(PlacementReply) /\ WF_vars(PlacementTimer)
  /\ WF_vars(NextPlayReply) /\ WF_vars(NextPlayTimer)
  /\ WF_vars(StartReply) /\ WF_vars(StartTimer)
  /\ WF_vars(CompleteReply)
  /\ WF_vars(InvalidateReply) /\ WF_vars(InvalidateTimer)
  /\ WF_vars(DeferredCompleted) /\ WF_vars(DeferredInvalidate)
  /\ WF_vars(SoundPlayEvent) /\ WF_vars(SoundFinishEvent)

----------------------------------------------------------------------------
(* Player.destroy(), after which the application calls the Player no more  *)
UserDestroy ==
  /\ ~state.destroyed
  /\ UNCHANGED budget
  /\ Commit("Player.destroy", NoArgs, "", PlayerDestroy(World))

InitDestroy == InitWith([tunes |-> MaxTunes, skips |-> MaxSkips, failures |-> 0])

NextDestroy ==
  \/ UserTune \/ UserPlay \/ UserPause \/ UserSkip \/ UserDestroy
  \/ DefaultPlacementReply \/ PlacementReply \/ NextPlayReply
  \/ StartReply \/ CompleteReply \/ SkipReply \/ InvalidateReply
  \/ DeferredCompleted \/ DeferredInvalidate
  \/ SoundPlayEvent \/ SoundPauseEvent \/ SoundFinishEvent

SpecDestroy == InitDestroy /\ [][NextDestroy]_vars

(* The handlers of the Player called with any play id: every handler is     *)
(* bound with the id of the play its Sound was created for, and compares    *)
(* it with the id of the binding.                                           *)

Positions == {0, ElapseInterval - 1, ElapseInterval}

SoundElapseEvent ==
  \E p \in PlayIds, position \in Positions :
    /\ sounds[p].st = "live" /\ sounds[p].cmd = "play" /\ sounds[p].last = "play"
    /\ UNCHANGED budget
    /\ Commit("_onSoundElapse", Task("", p, Null, position), "",
              _onSoundElapse(World, p, position))

(* an event of a Sound that is not the Sound of the binding *)
OtherSoundEvent ==
  \E p \in 1..PlayLimit, ev \in {"play", "pause", "finish", "finishWithError", "elapse"} :
    /\ p # state.activePlay.id
    /\ UNCHANGED budget
    /\ CASE ev = "play" ->
               Commit("_onSoundPlay", Task("", p, Null, 0), "", _onSoundPlay(World, p))
         [] ev = "pause" ->
               Commit("_onSoundPause", Task("", p, Null, 0), "", _onSoundPause(World, p))
         [] ev = "finish" ->
               Commit("_onSoundFinish", Task("", p, Null, 0), "",
                      _onSoundFinish(World, p, FALSE))
         [] ev = "finishWithError" ->
               Commit("_onSoundFinish", Task("", p, Null, 0), "withError",
                      _onSoundFinish(World, p, TRUE))
         [] OTHER ->
               Commit("_onSoundElapse", Task("", p, Null, ElapseInterval), "",
                      _onSoundElapse(World, p, ElapseInterval))

(* a play-started or play-completed event for a play that is not bound *)
OtherSessionEvent ==
  \E p \in 1..PlayLimit, ev \in {"play-started", "play-completed"} :
    /\ p # state.activePlay.id
    /\ UNCHANGED budget
    /\ IF ev = "play-started"
       THEN Commit("_onPlayStarted", Task("", p, Null, 0), "", _onPlayStarted(World, p))
       ELSE Commit("_onPlayCompleted", Task("", p, Null, 0), "", _onPlayCompleted(World, p))

InitAnyId == InitWith([tunes |-> MaxTunes, skips |-> MaxSkips, failures |-> 0])

(* no reply fails here, so no retry timer is ever scheduled *)
NextAnyId ==
  \/ UserTune \/ UserPlay \/ UserPause \/ UserSkip \/ UserSetStationId
  \/ DefaultPlacementReply \/ PlacementReply \/ NextPlayReply
  \/ StartReply \/ CompleteReply \/ SkipReply \/ InvalidateReply
  \/ DeferredCompleted \/ DeferredInvalidate
  \/ SoundPlayEvent \/ SoundPauseEvent \/ SoundFinishEvent
  \/ SoundElapseEvent \/ OtherSoundEvent \/ OtherSessionEvent

SpecAnyId == InitAnyId /\ [][NextAnyId]_vars

----------------------------------------------------------------------------
(* Suspending a Session and restoring it in a fresh one *)

\* Session.suspend(startPosition): the play is saved only once it has started
suspend(w, startPosition) ==
  [w EXCEPT !.saved =
     IF w.config.current.play # Null /\ w.config.current.started
     THEN [present |-> TRUE, restored |-> FALSE,
           placementId |-> w.config.placementId, hasPlay |-> TRUE,
           play |-> w.config.current.play, startPosition |-> startPosition,
           canSkip |-> w.config.current.canSkip]
     ELSE [NoSaved EXCEPT !.present = TRUE,
                          !.placementId = w.config.placementId]]

\* Session.unsuspend(saved)
unsuspend(w) ==
  IF w.config.current.play # Null THEN Throw(w)
  ELSE LET w1 == [w EXCEPT !.config.placementId = IF w.saved.placementId THEN TRUE ELSE @,
                           !.saved.restored = TRUE]
       IN IF w1.saved.hasPlay
          THEN _receiveStartPlay(_assignCurrentPlay(w1, w1.saved.play, FALSE),
                                 w1.saved.play, TRUE, w1.saved.canSkip)
          ELSE tune(w1)

\* Player.suspend: the position is the one of the bound Sound, 0 without one
PlayerSuspend(w, position) ==
  LET w1 == PlayerPause(suspend(w, position))
  IN [w1 EXCEPT !.state.suspended = TRUE]

(* Player.unsuspend clearing state.suspended *)
PlayerUnsuspend_resume(w, startPlayback) ==
  LET w1 == unsuspend([w EXCEPT !.state.suspended = FALSE])
  IN IF w1.threw THEN w1
     ELSE IF startPlayback THEN PlayerPlay(w1) ELSE w1

\* Player.unsuspend(state, startPlayback)
PlayerUnsuspend(w, startPlayback) ==
  LET w1 == unsuspend(w)
  IN IF w1.threw THEN w1
     ELSE IF startPlayback THEN PlayerPlay(w1) ELSE w1

UserSuspend ==
  \E position \in Positions :
    /\ ~state.destroyed /\ ~saved.present
    /\ position # 0 => (state.activePlay.id # Null /\ sounds[state.activePlay.id].st = "live")
    /\ UNCHANGED budget
    /\ Commit("Player.suspend", Task("", config.current.play, Null, position), "",
              PlayerSuspend(World, position))

(* a new page: a fresh Session and Player, nothing in flight, and the saved *)
(* object handed to Player.unsuspend                                        *)
UserUnsuspend ==
  \E placementId, startPlayback \in BOOLEAN :
    /\ saved.present /\ ~saved.restored
    /\ UNCHANGED budget
    /\ LET fresh ==
             [World EXCEPT
                !.config = [placementId |-> placementId, placement |-> FALSE,
                            current |-> NoCurrent, pendingRequest |-> NoRequest,
                            pendingPlay |-> Null],
                !.tasks = EmptyBag,
                !.state = [paused |-> TRUE, suspended |-> FALSE,
                           activePlay |-> NoActivePlay, destroyed |-> FALSE],
                !.sounds = [p \in PlayIds |-> NoSound],
                !.hist = [playLog |-> <<>>, startsSent |-> [p \in PlayIds |-> 0],
                          invalidatesSent |-> [p \in PlayIds |-> 0],
                          deliveredBy |-> [p \in PlayIds |-> Null],
                          tuned |-> FALSE, notified |-> FALSE, notInUs |-> FALSE,
                          tuneAjax |-> 0,
                          elapseTrace |-> [p \in PlayIds |-> <<>>],
                          elapseCalls |-> [p \in PlayIds |-> 0]]]
       IN Commit("Player.unsuspend", Task("", saved.play, Null, 0),
                 IF startPlayback THEN "new Player, startPlayback" ELSE "new Player",
                 PlayerUnsuspend(fresh, startPlayback))

InitSuspend == InitWith([tunes |-> 1, skips |-> MaxSkips, failures |-> 0])

NextSuspend ==
  \/ UserTune \/ UserPlay \/ UserPause \/ UserSkip \/ UserSuspend \/ UserUnsuspend
  \/ DefaultPlacementReply \/ PlacementReply \/ NextPlayReply
  \/ StartReply \/ CompleteReply \/ SkipReply \/ InvalidateReply
  \/ DeferredCompleted \/ DeferredInvalidate
  \/ SoundPlayEvent \/ SoundPauseEvent \/ SoundFinishEvent

SpecSuspend == InitSuspend /\ [][NextSuspend]_vars

\* Player.getCurrentState, of a Player whose session is set
getCurrentState(st, cfg) ==
  IF st.suspended THEN "suspended"
  ELSE IF ~(cfg.current.play # Null /\ cfg.current.started) THEN "idle"
  ELSE IF st.paused THEN "paused"
  ELSE "playing"

(* Player.unsuspend called on the Player that was suspended *)
UserUnsuspendSame ==
  \E startPlayback \in BOOLEAN :
    /\ saved.present /\ ~state.destroyed
    /\ budget.tunes > 0
    /\ budget' = [budget EXCEPT !.tunes = @ - 1]
    /\ Commit("Player.unsuspend", Task("", saved.play, Null, 0),
              IF startPlayback THEN "startPlayback" ELSE "",
              PlayerUnsuspend(World, startPlayback))

InitSuspended == InitWith([tunes |-> 1, skips |-> 0, failures |-> 0])

NextSuspended ==
  \/ UserTune \/ UserPlay \/ UserPause
  \/ UserSuspend \/ UserUnsuspendSame \/ UserUnsuspend
  \/ DefaultPlacementReply \/ PlacementReply \/ NextPlayReply
  \/ StartReply \/ CompleteReply \/ InvalidateReply
  \/ DeferredCompleted \/ DeferredInvalidate
  \/ SoundPlayEvent \/ SoundPauseEvent \/ SoundFinishEvent

SpecSuspended == InitSuspended /\ [][NextSuspended]_vars

(* Session.unsuspend called with the saved object on a Session that is      *)
(* tuned: the one that was suspended, still running                         *)
UserUnsuspendTuned ==
  /\ saved.present /\ isTuned(World)
  /\ budget.tunes > 0
  /\ budget' = [budget EXCEPT !.tunes = @ - 1]
  /\ Commit("Session.unsuspend", Task("", saved.play, Null, 0), "", unsuspend(World))

InitUnsuspend == InitWith([tunes |-> MaxTunes, skips |-> 0, failures |-> 0])

NextUnsuspend ==
  \/ UserTune \/ UserPlay \/ UserPause \/ UserSuspend \/ UserUnsuspendTuned
  \/ DefaultPlacementReply \/ PlacementReply \/ NextPlayReply
  \/ StartReply \/ CompleteReply \/ InvalidateReply
  \/ DeferredCompleted \/ DeferredInvalidate
  \/ SoundPlayEvent \/ SoundPauseEvent \/ SoundFinishEvent

SpecUnsuspend == InitUnsuspend /\ [][NextUnsuspend]_vars

(* two failed replies and a re-tune *)
MaxNotInUsFailures == 2

InitNotInUs == InitWith([tunes |-> MaxTunes, skips |-> 0, failures |-> MaxNotInUsFailures])

NextNotInUs ==
  \/ UserTune \/ UserPlay \/ UserSetStationId
  \/ DefaultPlacementReply \/ DefaultPlacementTimer
  \/ PlacementReply \/ PlacementTimer
  \/ NextPlayReply \/ NextPlayTimer
  \/ StartReply \/ StartTimer
  \/ CompleteReply
  \/ InvalidateReply \/ InvalidateTimer
  \/ DeferredCompleted \/ DeferredInvalidate
  \/ SoundPlayEvent \/ SoundFinishEvent

SpecNotInUs == InitNotInUs /\ [][NextNotInUs]_vars

(* A playing Sound advances: whileplaying fires at a later position *)
ElapsePositions == {0, 10000, 29999, 30000, 30001, 61000}

SoundElapseTick ==
  \E p \in PlayIds, position \in ElapsePositions :
    /\ sounds[p].st = "live" /\ sounds[p].cmd = "play" /\ sounds[p].last = "play"
    /\ IF sounds[p].ticking THEN position > sounds[p].position
                            ELSE position >= sounds[p].position
    /\ UNCHANGED budget
    /\ LET w == _onSoundElapse([World EXCEPT !.sounds[p].position = position,
                                             !.sounds[p].ticking = TRUE],
                               p, position)
       IN Commit("_onSoundElapse", Task("", p, Null, position), "",
                 [w EXCEPT !.hist.elapseTrace[p] = Append(@, position),
                           !.hist.elapseCalls[p] = @ + Len(w.sent)])

InitElapse == InitWith([tunes |-> 1, skips |-> 0, failures |-> 0])

NextElapse ==
  \/ UserPlay \/ UserPause
  \/ DefaultPlacementReply \/ PlacementReply \/ NextPlayReply
  \/ StartReply \/ CompleteReply
  \/ DeferredCompleted
  \/ SoundPlayEvent \/ SoundPauseEvent \/ SoundFinishEvent \/ SoundElapseTick

SpecElapse == InitElapse /\ [][NextElapse]_vars

(* start reports failing without limit, with a suspend and a restore *)
InitStart == InitWith([tunes |-> 1, skips |-> 0, failures |-> -1])

NextStart ==
  \/ UserPlay \/ UserPause \/ UserSuspend \/ UserUnsuspend
  \/ DefaultPlacementReply \/ PlacementReply \/ NextPlayReply
  \/ StartReply \/ StartTimer \/ CompleteReply
  \/ DeferredCompleted
  \/ SoundPlayEvent \/ SoundPauseEvent \/ SoundFinishEvent

SpecStart == InitStart /\ [][NextStart]_vars

----------------------------------------------------------------------------
(* The setters of the Session called in any state *)
Setters == {"setCredentials", "setPlacementId", "setStationId", "setFormats"}

UserSet ==
  \E op \in Setters, changed \in BOOLEAN :
    /\ budget.tunes > 0
    /\ op # "setPlacementId" => changed
    /\ budget' = [budget EXCEPT !.tunes = @ - 1]
    /\ Commit(op, NoArgs, "",
              CASE op = "setCredentials" -> setCredentials(World)
                [] op = "setPlacementId" -> setPlacementId(World, changed)
                [] op = "setStationId" -> setStationId(World)
                [] op = "setFormats" -> setFormats(World))

InitSetters == InitWith([tunes |-> MaxTunes, skips |-> 0, failures |-> 0])

NextSetters ==
  \/ UserTune \/ UserPlay \/ UserPause \/ UserSet
  \/ DefaultPlacementReply \/ PlacementReply \/ NextPlayReply
  \/ StartReply \/ CompleteReply \/ InvalidateReply
  \/ DeferredCompleted \/ DeferredInvalidate
  \/ SoundPlayEvent \/ SoundPauseEvent \/ SoundFinishEvent

SpecSetters == InitSetters /\ [][NextSetters]_vars

(* Player.pause() called while no play is active or none is started *)
UserPauseIdle ==
  /\ ~state.destroyed
  /\ ~hasActivePlayStarted(World) \/ state.activePlay.id = Null
  /\ UNCHANGED budget
  /\ Commit("Player.pause", NoArgs, "idle", PlayerPause(World))

SpecPause == InitSetters /\ [][NextSetters \/ UserPauseIdle]_vars

(* Player.play() called while the Session is tuned and the Player has no    *)
(* active play: the request for the first play, or for the one after a play *)
(* that is over, is outstanding                                             *)
UserPlayWaiting ==
  /\ ~state.destroyed
  /\ isTuned(World) /\ state.activePlay.id = Null
  /\ UNCHANGED budget
  /\ Commit("Player.play", NoArgs, "waiting", PlayerPlay(World))

SpecPlay == InitSetters /\ [][NextSetters \/ UserPlayWaiting]_vars

(* re-tunes with one play more in hand: the replies to the requests made    *)
(* for a play of before a re-tune arrive while the plays of after it are    *)
(* the current and the pending play                                         *)
InitStale ==
  InitWith([tunes |-> MaxTunes + 1, skips |-> 0, failures |-> 0,
            plays |-> MaxPlays + 1])

NextStale ==
  \/ UserTune \/ UserPlay \/ UserSetStationId
  \/ DefaultPlacementReply \/ PlacementReply \/ NextPlayReply
  \/ StartReply \/ CompleteReply \/ InvalidateReply
  \/ DeferredCompleted \/ DeferredInvalidate
  \/ SoundPlayEvent \/ SoundFinishEvent

SpecStale == InitStale /\ [][NextStale]_vars

----------------------------------------------------------------------------
(* The application calling the Session's report operations itself, in any   *)
(* state of the Session                                                     *)
MaxCalls == 2

SessionCall ==
  \E op \in {"reportPlayStarted", "reportPlayElapsed", "reportPlayCompleted",
              "requestSkip", "requestInvalidate"} :
    /\ budget.calls > 0
    /\ budget' = [budget EXCEPT !.calls = @ - 1]
    /\ Commit("Session." \o op, Task("", config.current.play, Null, 0), "",
              CASE op = "reportPlayStarted" -> reportPlayStarted(World)
                [] op = "reportPlayElapsed" -> reportPlayElapsed(World, 0)
                [] op = "reportPlayCompleted" -> reportPlayCompleted(World)
                [] op = "requestSkip" -> requestSkip(World)
                [] op = "requestInvalidate" -> requestInvalidate(World))

InitCalls == InitWith([tunes |-> 1, skips |-> 0, failures |-> 0, calls |-> MaxCalls])

NextCalls ==
  \/ UserTune \/ UserPlay \/ UserPause \/ SessionCall
  \/ DefaultPlacementReply \/ PlacementReply \/ NextPlayReply
  \/ StartReply \/ CompleteReply \/ SkipReply \/ InvalidateReply
  \/ DeferredCompleted \/ DeferredInvalidate
  \/ SoundPlayEvent \/ SoundPauseEvent \/ SoundFinishEvent

SpecCalls == InitCalls /\ [][NextCalls]_vars

----------------------------------------------------------------------------
(* The state-machine Player.  Its Session module is not part of the source: *)
(* the Session is the environment, which sets currentPlay, nextPlay and     *)
(* canSkip and triggers its events at any time; a play becomes the current  *)
(* play by promotion of the next play.  A destroyed Sound has its events    *)
(* disabled and a destroyed Session triggers none.                          *)

(* Player.prototype._setState leaving the interval alive on the way out of  *)
(* PLAYING                                                                  *)
_setState_keepInterval(m, newState) ==
  IF newState = m.state THEN m
  ELSE IF newState # "PLAYING" THEN [m EXCEPT !.state = newState]
  ELSE [m EXCEPT !.state = newState, !.elapseInterval = TRUE, !.intervals = @ + 1]

(* Player.prototype._setState: clearInterval stops the timer the handle     *)
(* names, setInterval starts one more and overwrites the handle             *)
_setState(m, newState) ==
  IF newState = m.state THEN m
  ELSE IF newState # "PLAYING"
       THEN IF m.elapseInterval
            THEN [m EXCEPT !.state = newState, !.elapseInterval = FALSE,
                           !.intervals = @ - 1]
            ELSE [m EXCEPT !.state = newState]
       ELSE [m EXCEPT !.state = newState, !.elapseInterval = TRUE, !.intervals = @ + 1]

(* Player.prototype._reportElapsedTime: whether session.updatePlay is called *)
_reportElapsedTime(m) ==
  /\ m.session.currentPlay # Null
  /\ m.playingSound \notin {Null, Undefined}
  /\ m.playingSound = m.session.currentPlay

(* the handler `op' ran and left m; reported: it called session.updatePlay *)
MachineStep(op, reported, m) ==
  /\ machine' = [m EXCEPT !.last = [op |-> op, reported |-> reported,
                                    threw |-> m.threw, commanded |-> m.commanded],
                          !.threw = FALSE, !.commanded = Null]
  /\ UNCHANGED <<config, tasks, state, sounds, ids, budget, hist, step, saved>>

(* the speaker promise is resolved or rejected once the Session is available *)
_onSessionAvailable ==
  \E speakerReady \in BOOLEAN :
    /\ ~machine.destroyed
    /\ MachineStep("_onSessionAvailable", FALSE,
                   _setState(machine, IF speakerReady THEN "READY_TO_PLAY"
                                      ELSE "UNAVAILABLE"))

_onSessionNotAvailable ==
  /\ ~machine.destroyed
  /\ MachineStep("_onSessionNotAvailable", FALSE, _setState(machine, "UNAVAILABLE"))

_onSessionUnexpectedError ==
  /\ ~machine.destroyed
  /\ MachineStep("_onSessionUnexpectedError", FALSE, _setState(machine, "READY_TO_PLAY"))

_onSessionNoMoreMusic ==
  /\ ~machine.destroyed
  /\ MachineStep("_onSessionNoMoreMusic", FALSE,
                 IF machine.state \in {"READY_TO_PLAY", "WAITING_FOR_ITEM"}
                 THEN _setState(machine, "READY_TO_PLAY")
                 ELSE machine)

_onSessionNextPlayAvailable ==
  \E nextPlay \in PlayIds \ {machine.session.currentPlay} :
    /\ ~machine.destroyed
    /\ LET m == [machine EXCEPT !.session.nextPlay = nextPlay]
       IN MachineStep("_onSessionNextPlayAvailable", FALSE,
            IF m.state \in {"READY_TO_PLAY", "PLAYING", "PAUSED", "WAITING_FOR_ITEM"}
            THEN LET m1 == [m EXCEPT !.sounds = @ \cup {nextPlay}]
                 IN IF m1.state = "WAITING_FOR_ITEM"
                    THEN [_setState(m1, "STALLED") EXCEPT !.commanded = nextPlay]
                    ELSE m1
            ELSE m)

_onSessionDiscardNextPlay ==
  /\ ~machine.destroyed
  /\ machine.session.nextPlay # Null
  /\ MachineStep("_onSessionDiscardNextPlay", FALSE,
                 [machine EXCEPT !.sounds = @ \ {machine.session.nextPlay},
                                 !.session.nextPlay = Null])

_onSessionSkipStatusDidChange ==
  \E canSkip \in BOOLEAN :
    /\ ~machine.destroyed
    /\ LET m == [machine EXCEPT !.session.canSkip = canSkip]
       IN MachineStep("_onSessionSkipStatusDidChange", FALSE,
            IF /\ m.state = "REQUESTING_SKIP" /\ ~canSkip
               /\ m.session.currentPlay # Null
               /\ m.session.currentPlay \in m.sounds
            THEN _setState([m EXCEPT !.commanded = m.session.currentPlay], "PLAYING")
            ELSE m)

(* current-play-did-change: the next play was promoted, or the current play *)
(* is over                                                                  *)
_onSessionCurrentPlayDidChange ==
  \E currentPlay \in {Null, machine.session.nextPlay} :
    /\ ~machine.destroyed
    /\ currentPlay # machine.session.currentPlay
    /\ LET m == [machine EXCEPT
                   !.session.currentPlay = currentPlay,
                   !.session.nextPlay = IF currentPlay # Null THEN Null ELSE @]
           m1 == IF currentPlay # Null
                 THEN [m EXCEPT !.playingSound =
                                   IF currentPlay \in m.sounds THEN currentPlay
                                   ELSE Undefined]
                 ELSE IF m.playingSound \notin {Null, Undefined}
                      THEN [m EXCEPT !.sounds = @ \ {m.playingSound},
                                     !.playingSound = Null]
                      ELSE m
       IN MachineStep("_onSessionCurrentPlayDidChange", FALSE,
            IF m1.state = "STALLED" /\ currentPlay # Null
            THEN _setState(m1, "PLAYING")
            ELSE IF \/ m1.state \in {"PLAYING", "REQUESTING_SKIP", "PAUSED"}
                    \/ (currentPlay = Null /\ m1.state = "STALLED")
                 THEN IF currentPlay # Null THEN m1
                      ELSE IF m1.session.nextPlay = Null
                           THEN _setState(m1, "WAITING_FOR_ITEM")
                           ELSE _setState([m1 EXCEPT !.sounds = @ \cup {m1.session.nextPlay},
                                                     !.commanded = m1.session.nextPlay],
                                          "STALLED")
                 ELSE m1)

(* Player.prototype.play; foundFile is the answer of session.requestPlay.   *)
(* this._sounds[id] is a Sound or undefined, never null: the test           *)
(* `sound === null' creates nothing, and sound.play() on undefined throws   *)
(* after the state was set                                                  *)
MachinePlay ==
  \E audioFileId, foundFile \in BOOLEAN :
    /\ ~machine.destroyed
    /\ ~audioFileId => ~foundFile
    /\ MachineStep(IF audioFileId THEN "play(audioFileId)" ELSE "play", FALSE,
         IF audioFileId
         THEN IF foundFile THEN _setState(machine, "WAITING_FOR_ITEM") ELSE machine
         ELSE IF machine.state = "READY_TO_PLAY"
              THEN IF machine.session.nextPlay = Null
                   THEN _setState(machine, "WAITING_FOR_ITEM")
                   ELSE IF machine.session.nextPlay \in machine.sounds
                   THEN [_setState(machine, "STALLED")
                           EXCEPT !.commanded = machine.session.nextPlay]
                   ELSE [_setState(machine, "STALLED") EXCEPT !.threw = TRUE]
              ELSE IF /\ machine.state = "PAUSED"
                      /\ machine.session.currentPlay # Null
                      /\ machine.session.currentPlay \in machine.sounds
              THEN [machine EXCEPT !.commanded = machine.session.currentPlay]
              ELSE machine)

(* Player.prototype.skip *)
MachineSkip ==
  /\ ~machine.destroyed
  /\ IF machine.session.canSkip /\ machine.state \in {"PLAYING", "PAUSED"}
     THEN MachineStep("skip",
                      machine.state = "PLAYING" /\ _reportElapsedTime(machine),
                      _setState([machine EXCEPT !.skipFrom = machine.state],
                                "REQUESTING_SKIP"))
     ELSE MachineStep("skip", FALSE, machine)

(* Player.prototype.destroy: the Session and every Sound are destroyed, the *)
(* interval is cleared, _state is left as it is                             *)
MachineDestroy ==
  /\ ~machine.destroyed
  /\ MachineStep("destroy", FALSE,
                 [machine EXCEPT !.destroyed = TRUE,
                                 !.elapseInterval = FALSE,
                                 !.intervals = IF machine.elapseInterval THEN @ - 1 ELSE @])

(* the `play' callback of the Sound of `play': in STALLED it only calls     *)
(* session.playStarted, in PAUSED playback resumed                          *)
MachineSoundPlay ==
  \E play \in machine.sounds :
    /\ ~machine.destroyed
    /\ machine.state = "PAUSED" => machine.session.currentPlay # Null
    /\ MachineStep("sound.play", FALSE,
         IF machine.state = "PAUSED" /\ machine.session.currentPlay = play
         THEN _setState(machine, "PLAYING")
         ELSE machine)

(* the `pause' callback of the Sound of `play' *)
MachineSoundPause ==
  \E play \in machine.sounds :
    /\ ~machine.destroyed
    /\ IF machine.state = "PLAYING" /\ machine.session.currentPlay = play
       THEN MachineStep("sound.pause", TRUE, _setState(machine, "PAUSED"))
       ELSE MachineStep("sound.pause", FALSE, machine)

(* a tick of an interval that is alive: Player.prototype._onPlaybackElapsedInterval *)
_onPlaybackElapsedInterval ==
  /\ machine.intervals > 0
  /\ MachineStep("_onPlaybackElapsedInterval",
                 /\ machine.state = "PLAYING"
                 /\ ~machine.destroyed
                 /\ _reportElapsedTime(machine),
                 machine)

NextMachine ==
  \/ _onSessionAvailable \/ _onSessionNotAvailable \/ _onSessionUnexpectedError
  \/ _onSessionNoMoreMusic \/ _onSessionNextPlayAvailable
  \/ _onSessionDiscardNextPlay \/ _onSessionSkipStatusDidChange
  \/ _onSessionCurrentPlayDidChange
  \/ MachinePlay \/ MachineSkip \/ MachineDestroy
  \/ MachineSoundPlay \/ MachineSoundPause
  \/ _onPlaybackElapsedInterval

SpecMachine == Init /\ [][NextMachine]_vars

----------------------------------------------------------------------------
(* Properties *)

LogLen == Len(hist.playLog)

(* C1: the Session holds at most one current play and the Player one        *)
(* binding, for that play; play-active and play-completed alternate, each   *)
(* play-completed being for the play of the play-active before it, so a     *)
(* play becomes current only once the previous one has been retired.        *)
C1_OneCurrentPlay ==
  /\ \A i \in 1..LogLen :
        IF i % 2 = 1
        THEN hist.playLog[i][1] = "play-active"
        ELSE hist.playLog[i] = <<"play-completed", hist.playLog[i - 1][2]>>
  /\ config.current.play =
        (IF LogLen % 2 = 1 THEN hist.playLog[LogLen][2] ELSE Null)
  /\ state.activePlay.id = config.current.play
  /\ \A p \in PlayIds : sounds[p].st = "live" => p = state.activePlay.id

(* a second play has become current after the first *)
C1_Witness ==
  /\ LogLen >= 3
  /\ hist.playLog[3][1] = "play-active"
  /\ hist.playLog[3][2] # hist.playLog[1][2]
  /\ config.current.play = hist.playLog[3][2]

(* C2: the reply to the completion report of a play that is no longer the   *)
(* current play (a skip, an invalidate or a tune retired it meanwhile) is   *)
(* discarded: the Session's state is left as it was (the current play is    *)
(* not retired, pendingPlay is not cleared) and no event is emitted.        *)
C2_StaleCompletionDiscarded ==
  [][(step'.op = "_receivePlayCompleted" /\ step'.play # config.current.play)
        => (config' = config /\ step'.emitted = <<>>)]_vars

(* C3: the reply (a play, no play, or a failure) to a next-play request     *)
(* sent before the latest tune changes no state of the Session or Player,   *)
(* emits no event, sends nothing and schedules no retry; the current play   *)
(* and the pending play were delivered by a request sent since that tune.   *)
C3_SupersededReplyIgnored ==
  /\ [][(step'.op \in {"_receiveNextPlay", "_failedNextPlay"}
           /\ step'.ajax < hist.tuneAjax)
          => /\ config' = config /\ state' = state /\ sounds' = sounds
             /\ step'.emitted = <<>> /\ step'.sent = <<>>
             /\ BagCardinality(tasks') = BagCardinality(tasks) - 1]_vars
  /\ [](\A p \in PlayIds :
          p \in {config.current.play, config.pendingPlay}
             => hist.deliveredBy[p] >= hist.tuneAjax)

(* a play delivered in reply to a request that a later tune superseded *)
C3_Witness ==
  /\ step.op = "_receiveNextPlay" /\ step.resp = "play"
  /\ step.ajax < hist.tuneAjax
  /\ config.pendingRequest.ajax # Null

(* C4: a finish of the sound of play P after its play event and before the  *)
(* play-started of P issues nothing; the call deferred when play-started(P) *)
(* is processed is requestInvalidate exactly when the finish carried the    *)
(* error flag, and when it runs it issues its one request for P.            *)
C4_DeferredReportForPlay ==
  /\ [][(/\ step'.op = "_onSoundFinish"
          /\ state.activePlay.id = step'.play
          /\ state.activePlay.playStarted
          /\ ~state.activePlay.startReportedToServer)
         => (step'.sent = <<>> /\ ~step'.threw)]_vars
  /\ [](\A t \in BagToSet(tasks) :
          /\ t.type \in {"deferCompleted", "deferInvalidate"} => CopiesIn(t, tasks) = 1
          /\ (t.type = "deferInvalidate" /\ state.activePlay.id = t.play)
                => state.activePlay.soundCompletedWithError
          /\ (t.type = "deferCompleted" /\ state.activePlay.id = t.play)
                => ~state.activePlay.soundCompletedWithError)
  /\ [][(step'.op = "deferred reportPlayCompleted")
         => (step'.sent = << <<"complete", step'.play>> >> /\ ~step'.threw)]_vars
  /\ [][(step'.op = "deferred requestInvalidate")
         => (step'.sent = << <<"invalidate", step'.play>> >> /\ ~step'.threw)]_vars

(* C5: at the first play event of the sound of the bound play the Player    *)
(* calls reportPlayStarted (a start request is sent for it); at every later *)
(* play event of that binding it emits play-resumed and sends nothing.      *)
C5_StartReportedOnFirstPlayOnly ==
  [][(step'.op = "_onSoundPlay" /\ state.activePlay.id = step'.play)
       => IF ~state.activePlay.playStarted
          THEN /\ step'.sent = << <<"start", step'.play>> >>
               /\ step'.emitted = <<>> /\ ~step'.threw
          ELSE /\ step'.emitted = << <<"play-resumed", step'.play>> >>
               /\ step'.sent = <<>> /\ ~step'.threw
               /\ hist'.startsSent = hist.startsSent]_vars

(* the sound of the bound play is playing again after a pause *)
C5_Witness ==
  /\ step.op = "_onSoundPlay"
  /\ step.emitted = << <<"play-resumed", step.play>> >>
  /\ state.activePlay.id = step.play
  /\ hist.startsSent[step.play] = 1

(* C6: while the invalidate requests of a play keep failing, the retry       *)
(* after the k-th request is scheduled 200 * 2^(k-1) ms later (200, 400,     *)
(* 800, 1600), and nothing is sent after the fifth request has failed.       *)
C6_InvalidateBackoff ==
  \A p \in PlayIds :
    /\ hist.invalidatesSent[p] <= 5
    /\ \A t \in BagToSet(tasks) :
          (t.type = "invalidateTimer" /\ t.play = p)
             => t.delay = InvalidateFirstDelay * 2 ^ (hist.invalidatesSent[p] - 1)

(* C7 as stated: a retry timer of the next-play request that fires once     *)
(* the delays waited in all are past 60000 ms sends no retry; the Session   *)
(* gives up and clears pendingRequest.                                      *)
C7_GiveUpOnCumulativeDelay ==
  [][(/\ step'.op = "_requestNextPlay"
      /\ config.pendingRequest.ajax # Null
      /\ config.pendingRequest.waited + step'.delay > NextPlayGiveUp)
     => (config'.pendingRequest = NoRequest /\ step'.sent = <<>>)]_vars

(* C7 amended: the retry after the k-th failure of a next-play request is   *)
(* scheduled 500 * 2^(k-1) ms later; when its timer fires the request is    *)
(* sent again if that delay is at most 60000 ms (up to 32000 ms); if it is  *)
(* more (64000 ms) nothing is sent, pendingRequest is cleared and, with no  *)
(* current play, plays-exhausted is emitted.                                *)
C7_GiveUpOnLastDelay ==
  /\ [](\A t \in BagToSet(tasks) :
          t.type = "playTimer"
             => /\ config.pendingRequest.ajax # Null
                /\ t.delay = NextPlayFirstDelay * 2 ^ config.pendingRequest.retryCount
                /\ config.pendingRequest.waited = t.delay - NextPlayFirstDelay)
  /\ [][(step'.op = "_requestNextPlay")
         => IF step'.delay > NextPlayGiveUp
            THEN /\ config'.pendingRequest = NoRequest
                 /\ step'.sent = <<>>
                 /\ config'.current = config.current
                 /\ step'.emitted = IF config.current.play = Null
                                     THEN << <<"plays-exhausted", Null>> >>
                                     ELSE <<>>
            ELSE /\ step'.sent = << <<"play", Null>> >>
                 /\ config'.pendingRequest.ajax = config.pendingRequest.ajax
                 /\ step'.emitted = <<>>]_vars

(* the Session has given up after the 64000 ms timer, with no current play *)
C7_Witness ==
  /\ step.op = "_requestNextPlay" /\ step.delay = 64000
  /\ step.emitted = << <<"plays-exhausted", Null>> >>
  /\ config.pendingRequest = NoRequest
  /\ config.current.play = Null

(* C8: while the start requests of the current play fail, the request is    *)
(* sent again 1000 ms after each failure, three requests in all; when the   *)
(* timer after the third failure fires no request is sent to the server     *)
(* for the start: the play is marked started and skippable, play-started    *)
(* is emitted and the next play is requested.                               *)
C8_StartAssumedAfterThreeRequests ==
  /\ [](\A p \in PlayIds : hist.startsSent[p] <= StartRetryLimit + 1)
  /\ [](\A t \in BagToSet(tasks) :
          t.type = "startTimer"
             => /\ t.delay = StartRetryDelay
                /\ config.current.play = t.play
                /\ hist.startsSent[t.play] = config.current.retryCount)
  /\ [][(step'.op = "_startPlay")
         => IF config.current.retryCount > StartRetryLimit
            THEN /\ hist.startsSent[step'.play] = StartRetryLimit + 1
                 /\ step'.sent = << <<"play", Null>> >>
                 /\ config'.current =
                       [config.current EXCEPT !.started = TRUE, !.canSkip = TRUE]
                 /\ step'.emitted = << <<"play-started", step'.play>> >>
            ELSE /\ step'.sent = << <<"start", step'.play>> >>
                 /\ config'.current = config.current
                 /\ step'.emitted = <<>>]_vars

(* the start of the current play has been assumed after three failed requests *)
C8_Witness ==
  /\ step.op = "_startPlay"
  /\ step.emitted = << <<"play-started", step.play>> >>
  /\ hist.startsSent[step.play] = 3
  /\ config.current.play = step.play
  /\ config.current.started /\ config.current.canSkip
  /\ config.pendingRequest.ajax # Null

(* C9: once a start request has been sent for the current play P, and the   *)
(* start requests are answered, eventually P is started (play-started(P))   *)
(* or P is no longer the current play.                                      *)
C9_StartEventuallySettled ==
  \A p \in PlayIds :
    (config.current.play = p /\ ~config.current.started /\ hist.startsSent[p] > 0)
      ~> (config.current.play # p \/ config.current.started)

(* the Session is at rest: no current play, no next-play request pending,   *)
(* no retry scheduled, no placement fetch in flight or scheduled            *)
AtRest ==
  /\ config.current.play = Null
  /\ config.pendingRequest.ajax = Null
  /\ \A t \in BagToSet(tasks) :
        t.type \notin {"play", "playTimer", "placement", "placementTimer",
                       "defaultPlacement", "defaultPlacementTimer"}

(* C10: when the reply to a next-play request leaves the tuned Session at   *)
(* rest, plays-exhausted, not-in-us or invalid-credentials has been emitted *)
(* since the latest tune.                                                   *)
C10_NoSilentRest ==
  (/\ step.op \in {"_receiveNextPlay", "_failedNextPlay"}
   /\ hist.tuned
   /\ AtRest)
    => hist.notified

(* the next-play requests in flight whose reply would be accepted: those of *)
(* the pending request                                                      *)
AcceptedInFlight ==
  {t \in BagToSet(tasks) :
     /\ t.type = "play"
     /\ config.pendingRequest.ajax # Null
     /\ t.ajax = config.pendingRequest.ajax}

(* C11: at most one next-play request whose reply would be accepted is in   *)
(* flight, whatever the interleaving of tunes, replies and retry timers.    *)
C11_OneNextPlayRequestInFlight ==
  /\ Cardinality(AcceptedInFlight) <= 1
  /\ \A t \in AcceptedInFlight : CopiesIn(t, tasks) = 1

(* C12: the reply, success or failure, to a skip, invalidate or start       *)
(* request of a play that is no longer the current play changes no state    *)
(* of the Session, emits no event and schedules no retry.                   *)
C12_StalePlayReplyIgnored ==
  [][(/\ step'.op \in {"_receiveSkip", "_failSkip", "_receiveInvalidate",
                       "_failInvalidate", "_receiveStartPlay", "_failStartPlay"}
      /\ step'.play # config.current.play)
     => /\ config' = config
        /\ step'.emitted = <<>> /\ step'.sent = <<>>
        /\ BagCardinality(tasks') = BagCardinality(tasks) - 1]_vars

(* C13: when the Player has a binding and the Session a current play they   *)
(* are for the same play; a sound event (play, pause, finish, elapse) or a  *)
(* play-started / play-completed event for another play than the bound one  *)
(* changes nothing in the Player, its sounds or the Session, and sends      *)
(* nothing.                                                                 *)
C13_OtherPlayEventIgnored ==
  /\ []((state.activePlay.id # Null /\ config.current.play # Null)
          => state.activePlay.id = config.current.play)
  /\ [][(/\ step'.op \in {"_onSoundPlay", "_onSoundPause", "_onSoundFinish",
                          "_onSoundElapse", "_onPlayStarted", "_onPlayCompleted"}
         /\ step'.play # state.activePlay.id)
        => /\ state' = state /\ sounds' = sounds /\ config' = config
           /\ tasks' = tasks
           /\ step'.sent = <<>> /\ step'.emitted = <<>> /\ ~step'.threw]_vars

(* the finish event of another Sound arrived while a started play is bound *)
C13_Witness ==
  /\ step.op = "_onSoundFinish"
  /\ state.activePlay.id # Null
  /\ step.play # state.activePlay.id
  /\ state.activePlay.id = config.current.play
  /\ state.activePlay.startReportedToServer

(* C14: the reply to the completion report of the current play P promotes   *)
(* the pending play when there is one (play-completed(P), then play-active  *)
(* of the pending play); with none and a next-play request outstanding it   *)
(* retires P and emits nothing more; with neither it retires P and emits    *)
(* plays-exhausted.                                                         *)
C14_CompletionAdvances ==
  [][(step'.op = "_receivePlayCompleted" /\ step'.play = config.current.play)
     => IF config.pendingPlay # Null
        THEN /\ config'.current.play = config.pendingPlay
             /\ config'.pendingPlay = Null
             /\ step'.emitted = << <<"play-completed", step'.play>>,
                                   <<"play-active", config.pendingPlay>> >>
        ELSE IF config.pendingRequest.ajax # Null
        THEN /\ config'.current = NoCurrent
             /\ config'.pendingRequest = config.pendingRequest
             /\ step'.emitted = << <<"play-completed", step'.play>> >>
        ELSE /\ config'.current = NoCurrent
             /\ step'.emitted = << <<"play-completed", step'.play>>,
                                   <<"plays-exhausted", Null>> >>]_vars

(* C15: a skip asked for a started current play that may not be skipped     *)
(* emits skip-denied in the call itself, sends no request and leaves the    *)
(* current play, pendingPlay and pendingRequest as they were.               *)
C15_SkipDeniedLocally ==
  [][(/\ step'.op = "Player.skip"
      /\ config.current.play # Null /\ config.current.started
      /\ ~config.current.canSkip)
     => /\ step'.emitted = << <<"skip-denied", Null>> >>
        /\ step'.sent = <<>> /\ ~step'.threw
        /\ config' = config /\ tasks' = tasks]_vars

(* a skip has just been denied without a request *)
C15_Witness ==
  /\ step.op = "Player.skip"
  /\ step.emitted = << <<"skip-denied", Null>> >>
  /\ config.current.started /\ ~config.current.canSkip
  /\ \A t \in BagToSet(tasks) : t.type # "skip"

(* C16: when the skip request of the current play P fails in transport or   *)
(* is answered with success false, skip-denied is emitted and the Session   *)
(* keeps P current, with its flags, pendingPlay and pendingRequest as they  *)
(* were; nothing is sent or scheduled.                                      *)
C16_FailedSkipKeepsPlay ==
  [][(/\ \/ step'.op = "_failSkip"
         \/ (step'.op = "_receiveSkip" /\ step'.resp = "unsuccessful")
      /\ step'.play = config.current.play)
     => /\ step'.emitted = << <<"skip-denied", Null>> >>
        /\ config' = config
        /\ step'.sent = <<>> /\ ~step'.threw
        /\ BagCardinality(tasks') = BagCardinality(tasks) - 1]_vars

(* the skip of the current play has just failed in transport *)
C16_Witness ==
  /\ step.op = "_failSkip"
  /\ step.play = config.current.play
  /\ step.emitted = << <<"skip-denied", Null>> >>
  /\ config.current.started /\ config.current.canSkip

(* C17: a successful skip reply for the current play P promotes the pending *)
(* play when there is one (play-completed(P), play-active of the pending    *)
(* play, pendingPlay cleared); with none and a next-play request pending P  *)
(* is retired and nothing more is emitted; with neither P is retired and    *)
(* plays-exhausted is emitted.                                              *)
C17_SkipAdvances ==
  [][(/\ step'.op = "_receiveSkip" /\ step'.resp = "success"
      /\ step'.play = config.current.play)
     => IF config.pendingPlay # Null
        THEN /\ config'.current =
                   [NoCurrent EXCEPT !.play = config.pendingPlay]
             /\ config'.pendingPlay = Null
             /\ config'.pendingRequest = config.pendingRequest
             /\ step'.emitted = << <<"play-completed", step'.play>>,
                                   <<"play-active", config.pendingPlay>> >>
        ELSE IF config.pendingRequest.ajax # Null
        THEN /\ config'.current = NoCurrent
             /\ config'.pendingRequest = config.pendingRequest
             /\ step'.emitted = << <<"play-completed", step'.play>> >>
        ELSE /\ config'.current = NoCurrent
             /\ step'.emitted = << <<"play-completed", step'.play>>,
                                   <<"plays-exhausted", Null>> >>]_vars

(* a successful skip has left the Session waiting for the pending request *)
C17_Witness ==
  /\ step.op = "_receiveSkip" /\ step.resp = "success"
  /\ step.emitted = << <<"play-completed", step.play>> >>
  /\ config.current.play = Null
  /\ config.pendingRequest.ajax # Null

\* the handlers of the Player, named as Commit records them
PlayerHandlers ==
  {"_onSoundPlay", "_onSoundPause", "_onSoundFinish", "_onSoundElapse",
   "_onPlayStarted", "_onPlayCompleted",
   "deferred reportPlayCompleted", "deferred requestInvalidate"}

(* C18: once Player.destroy() has run the pending request and the pending   *)
(* play are discarded and no Sound is live; from then on no step creates a  *)
(* Sound or commands one to play, no handler throws, and no handler of the  *)
(* Player sends a Session request.                                          *)
C18_DestroyedPlayerInert ==
  /\ [](state.destroyed
          => /\ config.pendingRequest = NoRequest /\ config.pendingPlay = Null
             /\ \A p \in PlayIds : sounds[p].st # "live")
  /\ [][state.destroyed
        => /\ \A p \in PlayIds :
                /\ sounds'[p].st = "live" => sounds[p].st = "live"
                /\ sounds'[p].cmd = "play" => sounds[p].cmd = "play"
           /\ ~step'.threw
           /\ step'.op \in PlayerHandlers => step'.sent = <<>>]_vars

LiveSounds == {p \in PlayIds : sounds[p].st = "live"}

(* C19: at most one Sound is live, a live Sound is the one of the Player's  *)
(* binding (none is dropped from the binding undestroyed), and no Sound is  *)
(* destroyed more than once: destroy() is called on it once at most and its *)
(* SoundManager sound is destructed once at most.                           *)
C19_SoundDestroyedOnce ==
  /\ Cardinality(LiveSounds) <= 1
  /\ \A p \in LiveSounds : state.activePlay.id = p
  /\ \A p \in PlayIds : sounds[p].destroys <= 1 /\ sounds[p].destructs <= 1

(* C20: when Session A has a started current play, suspend(P) saves that    *)
(* play with startPosition P and A's canSkip; unsuspend of the saved object *)
(* on a fresh Session B emits play-active and then play-started for the     *)
(* same play id, leaves it B's current play, started and with the saved     *)
(* canSkip, and the Player binds to it a new Sound that starts at P.        *)
C20_SuspendRoundTrip ==
  /\ [][(step'.op = "Player.suspend" /\ hasActivePlayStarted(World))
        => /\ saved'.hasPlay
           /\ saved'.play = config.current.play
           /\ saved'.canSkip = config.current.canSkip
           /\ saved'.startPosition = step'.delay]_vars
  /\ [][(step'.op = "Player.unsuspend" /\ saved.hasPlay)
        => /\ ~step'.threw
           /\ SelectSeq(step'.emitted, LAMBDA e : e[2] = saved.play)
                = << <<"play-active", saved.play>>, <<"play-started", saved.play>> >>
           /\ config'.current.play = saved.play
           /\ config'.current.started
           /\ config'.current.canSkip = saved.canSkip
           /\ saved'.restored /\ saved'.play = saved.play
           /\ saved'.startPosition = saved.startPosition
           /\ state'.activePlay.id = saved.play
           /\ state'.activePlay.startReportedToServer
           /\ sounds'[saved.play].st = "live"
           /\ SoundStartsAt(sounds'[saved.play]) = saved.startPosition]_vars

(* a play suspended at 30000 ms that could be skipped has been restored *)
C20_Witness ==
  /\ step.op = "Player.unsuspend"
  /\ saved.hasPlay /\ saved.restored /\ saved.canSkip
  /\ saved.startPosition = ElapseInterval
  /\ config.current.play = saved.play /\ config.current.started
  /\ sounds[saved.play].startPosition = ElapseInterval

(* C21: unsuspend(saved) on a tuned Session, one with a current play or a   *)
(* pending next-play request, throws, changes nothing in the Session,       *)
(* sends nothing and emits nothing.                                         *)
C21_UnsuspendTunedFails ==
  [][(step'.op = "Session.unsuspend" /\ isTuned(World))
      => /\ step'.threw
         /\ config' = config
         /\ step'.sent = <<>> /\ step'.emitted = <<>>]_vars

(* C22: reportPlayStarted, reportPlayElapsed and requestInvalidate called   *)
(* with no current play, and reportPlayCompleted and requestSkip called     *)
(* with no current play or with one that is not started, throw, send no     *)
(* request, emit no event, schedule nothing and leave the Session's         *)
(* current, pendingPlay and pendingRequest as they were.                    *)
C22_MisuseRaises ==
  [][(\/ /\ step'.op \in {"Session.reportPlayStarted", "Session.reportPlayElapsed",
                          "Session.requestInvalidate"}
         /\ config.current.play = Null
      \/ /\ step'.op \in {"Session.reportPlayCompleted", "Session.requestSkip"}
         /\ (config.current.play = Null \/ ~config.current.started))
      => /\ step'.threw
         /\ step'.sent = <<>> /\ step'.emitted = <<>>
         /\ config' = config /\ tasks' = tasks]_vars

(* reportPlayCompleted was called on a current play not yet started *)
C22_Witness ==
  /\ step.op = "Session.reportPlayCompleted"
  /\ step.threw
  /\ config.current.play # Null /\ ~config.current.started

\* the requests a tune() starts with
TuneRequests == {<<"defaultPlacement", Null>>, <<"placement", Null>>, <<"play", Null>>}

(* C23: each of setCredentials, setPlacementId, setStationId and setFormats *)
(* called on a tuned Session re-tunes it: the current play is retired with  *)
(* play-completed, the pending play and the pending request are discarded   *)
(* and the requests of a fresh tune are sent; called on a Session that is   *)
(* not tuned it retires nothing and sends nothing.                          *)
C23_SettersRetune ==
  [][step'.op \in Setters
      => IF isTuned(World)
         THEN /\ config.current.play # Null
                   => \E i \in 1..Len(step'.emitted) :
                         step'.emitted[i] = <<"play-completed", config.current.play>>
              /\ config'.current = NoCurrent
              /\ config'.pendingPlay = Null
              /\ config'.pendingRequest.ajax = Null
                   \/ config'.pendingRequest.ajax # config.pendingRequest.ajax
              /\ Len(step'.sent) = 1 /\ step'.sent[1] \in TuneRequests
         ELSE /\ config'.current = config.current
              /\ config'.pendingPlay = config.pendingPlay
              /\ config'.pendingRequest = config.pendingRequest
              /\ step'.sent = <<>> /\ tasks' = tasks]_vars

\* the step marks as started a current play that was not
BecomesStarted ==
  /\ config'.current.play # Null /\ config'.current.started
  /\ ~(config.current.play = config'.current.play /\ config.current.started)

\* the successful reply to the start report of the play that is current
StartAcknowledged ==
  /\ step'.op = "_receiveStartPlay" /\ step'.resp \in {"can_skip", "no_skip"}
  /\ step'.play = config'.current.play

\* the start reports of the current play failed more than StartRetryLimit times
StartBudgetExhausted ==
  /\ config.current.play = config'.current.play
  /\ config.current.retryCount > StartRetryLimit

\* the play was saved by suspend(), which saves started plays only
StartRestored ==
  /\ step'.op = "Player.unsuspend" /\ saved.hasPlay
  /\ config'.current.play = saved.play

\* the server refused the start report: the play was started already
StartAlreadyReported ==
  /\ step'.op = "_failStartPlay" /\ step'.resp = "403-20"
  /\ step'.play = config'.current.play

(* C24 as stated: a current play becomes started only by a successful      *)
(* reply to its start report, by the exhaustion of the start retries, or    *)
(* as a play restored from a suspended Session where it was started.        *)
C24_StartedOnlyWhenAcknowledged ==
  [][BecomesStarted
      => StartAcknowledged \/ StartBudgetExhausted \/ StartRestored]_vars

(* C24 amended: a current play becomes started only by a successful reply   *)
(* to its start report, by a start report refused with 403 and error code   *)
(* 20 (the server has the play as started already), by the exhaustion of    *)
(* the start retries, or as a play restored from a suspended Session where  *)
(* it was started.                                                          *)
C24_StartedOnlyWhenAcknowledgedOrKnown ==
  [][BecomesStarted
      => \/ StartAcknowledged \/ StartAlreadyReported
         \/ StartBudgetExhausted \/ StartRestored]_vars

(* the start report of the current play was refused as already started *)
C24_Witness ==
  /\ step.op = "_failStartPlay" /\ step.resp = "403-20"
  /\ config.current.play = step.play /\ config.current.started

\* the positions of the claim's example, in their order
ElapseExample == <<0, 10000, 29999, 30000, 30001, 61000>>

(* C25: an elapse event of the bound Sound at position cur, prev being the  *)
(* position recorded before, makes the Player call                          *)
(* reportPlayElapsed(floor(cur / 1000)) exactly when floor(prev / 30000)    *)
(* and floor(cur / 30000) differ, and leaves cur recorded; the events at    *)
(* 0, 10000, 29999, 30000, 30001 and 61000 make exactly 2 calls.            *)
C25_ElapseReportedPerInterval ==
  /\ [][(step'.op = "_onSoundElapse" /\ step'.play = state.activePlay.id)
        => /\ state'.activePlay.previousPosition = step'.delay
           /\ ~step'.threw
           /\ step'.sent =
                IF state.activePlay.previousPosition \div 30000 # step'.delay \div 30000
                THEN << <<"elapse", step'.play, step'.delay \div 1000>> >>
                ELSE <<>>]_vars
  /\ [](\A p \in PlayIds :
          hist.elapseTrace[p] = ElapseExample => hist.elapseCalls[p] = 2)

(* the six events of the example were handled for one play *)
C25_Witness ==
  \E p \in PlayIds :
    /\ hist.elapseTrace[p] = ElapseExample
    /\ hist.elapseCalls[p] = 2
    /\ state.activePlay.id = p /\ state.activePlay.previousPosition = 61000

\* the step emitted event ev for play p
Emitted(ev, p) == \E i \in 1..Len(step'.emitted) : step'.emitted[i] = <<ev, p>>

(* C26: a step in which the Session emits play-completed for the bound play *)
(* leaves the bound Sound destroyed, the binding to it dropped and the      *)
(* Player not paused, whether it was paused or not; a play that becomes     *)
(* active in the same step is bound to a new Sound that is commanded to     *)
(* play.                                                                    *)
C26_CompletedUnpauses ==
  [][\A p \in PlayIds :
       (state.activePlay.id = p /\ Emitted("play-completed", p))
       => /\ sounds'[p].st = "dead"
          /\ state'.activePlay.id # p
          /\ ~state'.paused
          /\ \A q \in PlayIds :
               Emitted("play-active", q)
               => /\ state'.activePlay.id = q
                  /\ sounds'[q].st = "live" /\ sounds'[q].cmd = "play"]_vars

(* a skip succeeded while the Player was paused (the Sound of the skipped   *)
(* play was destroyed paused) and the next play was commanded to play       *)
C26_Witness ==
  /\ step.op = "_receiveSkip" /\ step.resp = "success"
  /\ sounds[step.play].st = "dead"
  /\ sounds[step.play].cmd = "pause" /\ sounds[step.play].last = "pause"
  /\ state.activePlay.id # Null /\ state.activePlay.id # step.play
  /\ step.emitted = << <<"play-completed", step.play>>,
                       <<"play-active", state.activePlay.id>> >>
  /\ sounds[state.activePlay.id].cmd = "play"
  /\ ~state.paused

\* the timers that retry the next-play request
PlayTimers(bag) == {t \in BagToSet(bag) : t.type = "playTimer"}

(* C27: from the step that emits not-in-us until tune() runs again, no step *)
(* sends a next-play request and no step schedules a retry of one.          *)
C27_NoRecoveryAfterNotInUs ==
  [][(hist.notInUs /\ hist'.notInUs)
      => /\ \A i \in 1..Len(step'.sent) : step'.sent[i][1] # "play"
         /\ \A t \in PlayTimers(tasks') :
               CopiesIn(t, tasks') <= CopiesIn(t, tasks)]_vars

\* the start reports of play p in flight and the retries of them scheduled
StartsPending(bag, p) ==
  {t \in BagToSet(bag) : t.type \in {"start", "startTimer"} /\ t.play = p}

(* C28: when a reply to the completion, the skip or the invalidation of the *)
(* current play P promotes the pending play to current, no start report     *)
(* for P is in flight and no retry of one is scheduled.                     *)
C28_NoStartPendingAtPromotion ==
  [][(/\ step'.op \in {"_receivePlayCompleted", "_receiveSkip", "_receiveInvalidate"}
      /\ config.current.play # Null
      /\ config.pendingPlay # Null
      /\ config'.current.play = config.pendingPlay)
     => StartsPending(tasks', config.current.play) = {}]_vars

\* the step is an unsuspend() on a new Player
UnsuspendOfNewPlayer ==
  /\ step'.op = "Player.unsuspend"
  /\ step'.resp \in {"new Player", "new Player, startPlayback"}

(* C29 as stated: once Player.suspend() has run, getCurrentState() is       *)
(* 'suspended' after every step that is not an unsuspend(), and after an    *)
(* unsuspend() it is not 'suspended'.                                       *)
C29_SuspendedUntilUnsuspend ==
  [][/\ (state.suspended /\ step'.op # "Player.unsuspend")
        => getCurrentState(state', config') = "suspended"
     /\ step'.op = "Player.unsuspend"
        => getCurrentState(state', config') # "suspended"]_vars

(* C29 amended: once Player.suspend() has run, getCurrentState() of that    *)
(* Player is 'suspended' after every step, an unsuspend() on it included;   *)
(* it is the new Player on which unsuspend() is called with the saved state *)
(* that is not 'suspended' after it.                                        *)
C29_SuspendedForGood ==
  [][/\ (state.suspended /\ ~UnsuspendOfNewPlayer)
        => getCurrentState(state', config') = "suspended"
     /\ UnsuspendOfNewPlayer
        => getCurrentState(state', config') # "suspended"]_vars

(* unsuspend() ran to its end on the Player that was suspended, which still *)
(* reports 'suspended'                                                      *)
C29_Witness ==
  /\ step.op = "Player.unsuspend" /\ step.resp \in {"", "startPlayback"}
  /\ ~step.threw
  /\ getCurrentState(state, config) = "suspended"

(* C30: in the state-machine Player at most one elapsed-time interval is    *)
(* alive; one is alive exactly while the state is PLAYING and destroy() has *)
(* not run, and it is the one the Player holds the handle of; a tick that   *)
(* reports elapsed time does so in state PLAYING with a playing sound whose *)
(* play is the Session's current play.                                      *)
C30_ElapseIntervalWhilePlaying ==
  /\ machine.intervals <= 1
  /\ machine.intervals = 1 <=> (machine.state = "PLAYING" /\ ~machine.destroyed)
  /\ machine.elapseInterval <=> machine.intervals = 1
  /\ (machine.last.op = "_onPlaybackElapsedInterval" /\ machine.last.reported)
       => /\ machine.state = "PLAYING"
          /\ machine.session.currentPlay # Null
          /\ machine.playingSound = machine.session.currentPlay

(* a tick of the interval reported elapsed time while the next play was     *)
(* already known                                                            *)
C30_Witness ==
  /\ machine.last.op = "_onPlaybackElapsedInterval" /\ machine.last.reported
  /\ machine.state = "PLAYING" /\ machine.intervals = 1
  /\ machine.session.nextPlay # Null

(* C31: Player.pause() called while no play is active or none is started    *)
(* raises an error.                                                         *)
C31_PauseWithoutPlayRaises ==
  [][(step'.op = "Player.pause" /\ step'.resp = "idle") => step'.threw]_vars

(* C32: when a successful reply to the start report of the current play is  *)
(* processed, the play is started afterwards with the canSkip of the reply, *)
(* play-started is emitted for it, and a next-play request is pending: the  *)
(* one that was pending before, with nothing sent, or else a new one, sent  *)
(* in that step.                                                            *)
C32_StartAcknowledgedPrefetches ==
  [][(/\ step'.op = "_receiveStartPlay"
      /\ step'.resp \in {"can_skip", "no_skip"}
      /\ config.current.play # Null
      /\ config.current.play = step'.play)
     => /\ config'.current.play = step'.play
        /\ config'.current.started
        /\ config'.current.canSkip = (step'.resp = "can_skip")
        /\ Emitted("play-started", step'.play)
        /\ config'.pendingRequest.ajax # Null
        /\ IF config.pendingRequest.ajax # Null
           THEN /\ config'.pendingRequest = config.pendingRequest
                /\ step'.sent = <<>>
           ELSE step'.sent = << <<"play", Null>> >>]_vars

(* the start of the current play was acknowledged with can_skip and the     *)
(* request for the next play went out                                       *)
C32_Witness ==
  /\ step.op = "_receiveStartPlay" /\ step.resp = "can_skip"
  /\ config.current.play = step.play
  /\ config.current.started /\ config.current.canSkip
  /\ step.emitted = << <<"play-started", step.play>> >>
  /\ step.sent = << <<"play", Null>> >>
  /\ config.pendingRequest.ajax # Null

(* C33: when a successful reply to the invalidation of the current play P   *)
(* is processed, a pending play becomes the current play and is no longer   *)
(* pending; without a pending play there is no current play afterwards,     *)
(* play-completed is emitted for P, plays-exhausted is not emitted and a    *)
(* next-play request is pending.                                            *)
C33_InvalidatedPlayReplaced ==
  [][(/\ step'.op = "_receiveInvalidate" /\ step'.resp = "success"
      /\ config.current.play # Null
      /\ config.current.play = step'.play)
     => IF config.pendingPlay # Null
        THEN /\ config'.current.play = config.pendingPlay
             /\ config'.pendingPlay = Null
        ELSE /\ config'.current.play = Null
             /\ Emitted("play-completed", step'.play)
             /\ \A i \in 1..Len(step'.emitted) : step'.emitted[i][1] # "plays-exhausted"
             /\ config'.pendingRequest.ajax # Null]_vars

(* the invalidation of the current play succeeded with no play pending and  *)
(* no request pending: the play was retired and a next play requested       *)
C33_Witness ==
  /\ step.op = "_receiveInvalidate" /\ step.resp = "success"
  /\ step.emitted = << <<"play-completed", step.play>> >>
  /\ step.sent = << <<"play", Null>> >>
  /\ config.current.play = Null
  /\ config.pendingRequest.ajax # Null

(* C34: when the finish event of the Sound of the active binding arrives    *)
(* before any play event of that Sound, the step sends the invalidation of  *)
(* that play and nothing else; and no step ever sends the completion of a   *)
(* play whose Sound has had no play event.                                  *)
C34_UnplayedSoundInvalidated ==
  [][/\ (/\ step'.op = "_onSoundFinish"
         /\ state.activePlay.id # Null /\ state.activePlay.id = step'.play
         /\ ~sounds[step'.play].played)
        => step'.sent = << <<"invalidate", step'.play>> >>
     /\ \A i \in 1..Len(step'.sent) :
          step'.sent[i][1] = "complete" => sounds'[step'.sent[i][2]].played]_vars

(* the Sound of the current play failed before it played: the play was      *)
(* invalidated and its start never reported                                 *)
C34_Witness ==
  /\ step.op = "_onSoundFinish" /\ step.resp = "withError"
  /\ ~sounds[step.play].played
  /\ step.sent = << <<"invalidate", step.play>> >>
  /\ state.activePlay.id = step.play /\ state.activePlay.soundCompleted
  /\ hist.startsSent[step.play] = 0

(* C35: in the state-machine Player a play() without arguments in state     *)
(* READY_TO_PLAY with a next play queued does not throw and leaves the      *)
(* state STALLED, a sound for the next play in the Player's map and that    *)
(* sound commanded to play.                                                 *)
C35_PlayStartsQueuedPlay ==
  [][(/\ machine'.last.op = "play"
      /\ machine.state = "READY_TO_PLAY"
      /\ machine.session.nextPlay # Null)
     => /\ ~machine'.last.threw
        /\ machine'.state = "STALLED"
        /\ machine.session.nextPlay \in machine'.sounds
        /\ machine'.last.commanded = machine.session.nextPlay]_vars

(* C40: in the state-machine Player, when the skip status becomes false in  *)
(* state REQUESTING_SKIP (the current play and its sound are there), the    *)
(* Player is afterwards in the state in which skip() was called, and no     *)
(* sound is commanded to play when that state was PAUSED.                   *)
C40_DeniedSkipRestoresState ==
  [][(/\ machine'.last.op = "_onSessionSkipStatusDidChange"
      /\ machine.state = "REQUESTING_SKIP"
      /\ ~machine'.session.canSkip
      /\ machine.session.currentPlay # Null
      /\ machine.session.currentPlay \in machine.sounds)
     => /\ machine'.state = machine.skipFrom
        /\ machine.skipFrom = "PAUSED" => machine'.last.commanded = Null]_vars

(* C36: whenever the Session holds a pending play it has a current play and *)
(* that play is started.                                                    *)
C36_PendingPlayBehindStartedPlay ==
  config.pendingPlay # Null
    => (config.current.play # Null /\ config.current.started)

(* C37: the Session never has a next-play request pending while it holds a  *)
(* pending play.                                                            *)
C37_RequestOrPendingPlay ==
  ~(config.pendingRequest.ajax # Null /\ config.pendingPlay # Null)

(* C38: a retry timer of the start report that fires when its play is no    *)
(* longer the current play raises no error, sends nothing and leaves the    *)
(* Session's current play, pending play and pending request as they were.   *)
C38_StaleStartRetryInert ==
  [][(step'.op = "_startPlay" /\ config.current.play # step'.play)
     => /\ ~step'.threw
        /\ step'.sent = <<>>
        /\ config' = config]_vars

(* C39: after a call of Player.play() that returns, the active play, if    *)
(* its sound is not over, is commanded to play, and a play that becomes     *)
(* active in the step after the call is commanded to play as it becomes     *)
(* active.                                                                  *)
C39_PlayCommandsPlayback ==
  [][/\ (step'.op = "Player.play" /\ ~step'.threw /\ state'.activePlay.id # Null
          /\ sounds'[state'.activePlay.id].st = "live")
          => sounds'[state'.activePlay.id].cmd = "play"
     /\ (step.op = "Player.play" /\ ~step.threw
          /\ state.activePlay.id = Null /\ state'.activePlay.id # Null)
          => sounds'[state'.activePlay.id].cmd = "play"]_vars
====
